---- MODULE Spec2Model ----
(***************************************************************************)
(* The PowerScale `info` module (plugins/modules/info.py): one invocation  *)
(* of main() builds an Info object (argument validation by AnsibleModule), *)
(* then perform_module_operation() walks a fixed chain of                  *)
(* `if '<id>' in str(subset)` tests, calls the handler of every test that  *)
(* is true, and ends in exit_json of the result or, on the first failure,  *)
(* in fail_json.  Both calls end the process.                              *)
(***************************************************************************)
EXTENDS Integers, Sequences, FiniteSets, TLC

(***************************************************************************)
(* Bounds of the model.                                                    *)
(***************************************************************************)
MaxSubsetLen == 2
MaxRules == 3
MaxLimit == 11
MaxRuns == 2
MaxReports == 3

(***************************************************************************)
(* Python values.  A list and a dict are tagged so that the empty list []  *)
(* and the empty dict {} stay different values; None is its own value.     *)
(***************************************************************************)
None == [py |-> "None"]
PyList(s) == [py |-> "list", v |-> s]
PyDict(d) == [py |-> "dict", v |-> d]
EmptyList == PyList(<<>>)
EmptyDict == PyDict(<<>>)

\* Python truth value of a list, a dict or None (`if shares:`).
Truthy(x) == x.py # "None" /\ DOMAIN x.v # {}

\* Variant: no list counts as empty.
never_empty(l) == FALSE

\* Python `not subset` for the gather_subset list.
IsEmptyList(l) == Len(l) = 0

(***************************************************************************)
(* Text.  TLA+ strings are sequences of characters: Len, \o and SubSeq     *)
(* are those of Sequences.                                                 *)
(***************************************************************************)
\* sep.join(parts)
RECURSIVE join(_, _)
join(sep, parts) ==
    IF Len(parts) = 0 THEN ""
    ELSE IF Len(parts) = 1 THEN parts[1]
    ELSE parts[1] \o sep \o join(sep, Tail(parts))

\* repr() of a str without quotes or escapes in it.
repr(s) == "'" \o s \o "'"

\* str() of a list of str: "['a', 'b']".
str_of_list(l) == "[" \o join(", ", [i \in 1..Len(l) |-> repr(l[i])]) \o "]"

\* Python `needle in text` on two str: needle occurs as a substring.
contains(needle, text) ==
    \E i \in 1..(Len(text) - Len(needle) + 1) :
        SubSeq(text, i, i + Len(needle) - 1) = needle

\* str() of a non-negative int: its decimal digits.
str_of_int(n) == ToString(n)

(***************************************************************************)
(* get_info_parameters(): the argument spec.                               *)
(***************************************************************************)
\* choices of gather_subset, in the order the argument spec lists them.
gather_subset_choices ==
    << "attributes", "access_zones", "nodes", "providers", "users", "groups",
       "smb_shares", "nfs_exports", "nfs_aliases", "clients",
       "synciq_reports", "synciq_target_reports", "synciq_policies",
       "synciq_target_cluster_certificates", "synciq_performance_rules",
       "network_groupnets", "network_pools", "network_rules",
       "network_interfaces", "network_subnets", "node_pools",
       "storagepool_tiers", "smb_files", "user_mapping_rules", "ldap",
       "nfs_zone_settings", "nfs_default_settings", "nfs_global_settings",
       "synciq_global_settings", "s3_buckets", "smb_global_settings",
       "ntp_servers", "email_settings", "cluster_identity", "cluster_owner",
       "snmp_settings", "server_certificate", "roles",
       "support_assist_settings" >>

Categories == {gather_subset_choices[i] : i \in DOMAIN gather_subset_choices}

\* The access zones a caller may name.
Zones == {"System", "zone1"}

scope_choices == {"effective", "user", "default"}
\* Variant: access_zone has no default.
access_zone_no_default == "None"

access_zone_default == "System"
scope_default == "effective"

\* Variant: no mutual exclusion is declared.
no_mutually_exclusive_args == {}

\* mutually_exclusive_args of Info.__init__.
mutually_exclusive_args == {{"access_zone", "include_all_access_zones"}}

\* Parameters the argument spec marks required=True.
required_args == {"gather_subset"}

\* Variant: the chain tests the identifiers in the order of the choices.
if_chain_in_choices_order == gather_subset_choices

\* Variant: the last block of the chain is missing.
if_chain_without_last ==
    << "attributes", "access_zones", "nodes", "providers", "users", "groups",
       "smb_shares", "clients", "nfs_exports", "nfs_aliases",
       "synciq_reports", "synciq_target_reports", "synciq_policies",
       "synciq_target_cluster_certificates", "synciq_performance_rules",
       "network_groupnets", "network_pools", "network_rules",
       "network_interfaces", "network_subnets", "node_pools",
       "storagepool_tiers", "smb_files", "user_mapping_rules", "ldap",
       "nfs_zone_settings", "nfs_default_settings", "nfs_global_settings",
       "synciq_global_settings", "s3_buckets", "smb_global_settings",
       "ntp_servers", "email_settings", "cluster_identity", "cluster_owner",
       "snmp_settings", "server_certificate", "roles" >>

(***************************************************************************)
(* perform_module_operation(): the chain of `if '<id>' in str(subset)`     *)
(* tests, in source order.                                                 *)
(***************************************************************************)
if_chain ==
    << "attributes", "access_zones", "nodes", "providers", "users", "groups",
       "smb_shares", "clients", "nfs_exports", "nfs_aliases",
       "synciq_reports", "synciq_target_reports", "synciq_policies",
       "synciq_target_cluster_certificates", "synciq_performance_rules",
       "network_groupnets", "network_pools", "network_rules",
       "network_interfaces", "network_subnets", "node_pools",
       "storagepool_tiers", "smb_files", "user_mapping_rules", "ldap",
       "nfs_zone_settings", "nfs_default_settings", "nfs_global_settings",
       "synciq_global_settings", "s3_buckets", "smb_global_settings",
       "ntp_servers", "email_settings", "cluster_identity", "cluster_owner",
       "snmp_settings", "server_certificate", "roles",
       "support_assist_settings" >>

\* The accumulator variables and their initial values.
initial_locals ==
    [ attributes |-> EmptyList, access_zones |-> EmptyList,
      nodes |-> EmptyList, providers |-> EmptyList, users |-> EmptyList,
      groups |-> EmptyList, smb_shares |-> EmptyList, clients |-> EmptyList,
      nfs_exports |-> EmptyList, nfs_aliases |-> EmptyList,
      synciq_reports |-> EmptyList, synciq_target_reports |-> EmptyList,
      synciq_policies |-> EmptyList,
      synciq_target_cluster_certificates |-> EmptyList,
      synciq_performance_rules |-> EmptyList, network_pools |-> EmptyList,
      network_groupnets |-> EmptyList, network_rules |-> EmptyList,
      network_interfaces |-> EmptyList, network_subnets |-> EmptyList,
      node_pools |-> EmptyList, storagepool_tiers |-> EmptyList,
      smb_files |-> EmptyList, user_mapping_rules |-> EmptyList,
      ldap |-> EmptyList, nfs_zone_settings |-> EmptyDict,
      nfs_default_settings |-> EmptyDict, nfs_global_settings |-> EmptyDict,
      synciq_global_settings |-> EmptyDict, s3_buckets |-> EmptyDict,
      smb_global_settings |-> EmptyDict, ntp_servers |-> EmptyDict,
      email_settings |-> EmptyDict, cluster_identity |-> EmptyDict,
      cluster_owner |-> EmptyDict, snmp_settings |-> EmptyDict,
      server_certificate |-> EmptyList, roles |-> EmptyDict,
      support_assist_settings |-> EmptyDict ]

\* result = dict(...): the output keys but one.
result_dict(l) ==
    [ Attributes |-> l.attributes, AccessZones |-> l.access_zones,
      Nodes |-> l.nodes, Providers |-> l.providers, Users |-> l.users,
      Groups |-> l.groups, SmbShares |-> l.smb_shares,
      Clients |-> l.clients, NfsExports |-> l.nfs_exports,
      NfsAliases |-> l.nfs_aliases, SynciqReports |-> l.synciq_reports,
      SynciqTargetReports |-> l.synciq_target_reports,
      SynciqPolicies |-> l.synciq_policies,
      SynciqPerformanceRules |-> l.synciq_performance_rules,
      NetworkGroupnets |-> l.network_groupnets,
      NetworkPools |-> l.network_pools, NetworkRules |-> l.network_rules,
      NetworkInterfaces |-> l.network_interfaces,
      NetworkSubnets |-> l.network_subnets, NodePools |-> l.node_pools,
      StoragePoolTiers |-> l.storagepool_tiers,
      SmbOpenFiles |-> l.smb_files,
      UserMappingRules |-> l.user_mapping_rules, LdapProviders |-> l.ldap,
      NfsZoneSettings |-> l.nfs_zone_settings,
      NfsDefaultSettings |-> l.nfs_default_settings,
      NfsGlobalSettings |-> l.nfs_global_settings,
      SynciqGlobalSettings |-> l.synciq_global_settings,
      s3Buckets |-> l.s3_buckets,
      SmbGlobalSettings |-> l.smb_global_settings,
      NTPServers |-> l.ntp_servers, EmailSettings |-> l.email_settings,
      ClusterIdentity |-> l.cluster_identity,
      ClusterOwner |-> l.cluster_owner, SnmpSettings |-> l.snmp_settings,
      ServerCertificate |-> l.server_certificate, roles |-> l.roles,
      support_assist_settings |-> l.support_assist_settings ]

\* Variant: the update adds its value under a misspelt key.
result_update_misspelt(result, l) ==
    [k \in (DOMAIN result) \cup {"SynciqTargetClusterCertificates"} |->
        IF k = "SynciqTargetClusterCertificates"
        THEN l.synciq_target_cluster_certificates ELSE result[k]]

\* result.update(SynciqTargetClusterCertificate=...): the last output key.
result_update(result, l) ==
    [k \in (DOMAIN result) \cup {"SynciqTargetClusterCertificate"} |->
        IF k = "SynciqTargetClusterCertificate"
        THEN l.synciq_target_cluster_certificates ELSE result[k]]

build_result(l) == result_update(result_dict(l), l)

(***************************************************************************)
(* State.                                                                  *)
(***************************************************************************)
VARIABLES
    args,      \* what the caller supplied: [supplied, gather_subset, ...]
    cluster,   \* the remote cluster: the operations that raise, and its data
    pc,        \* "main", "constructed", "dispatching", "exited", "failed"
    params,    \* self.module.params, once AnsibleModule has been built
    pos,       \* index in if_chain of the last `if` that was evaluated
    locals,    \* the accumulator variables of perform_module_operation
    invoked,   \* the handlers called so far, in call order
    calls,     \* the remote calls issued so far, in call order
    returned,  \* what each handler that returned has returned
    outputs,   \* what exit_json / fail_json have emitted, in order
    run,       \* number of the current invocation
    prev       \* calls and outputs of the invocation before this one

vars == << args, cluster, pc, params, pos, locals, invoked, calls, returned,
           outputs, run, prev >>

(***************************************************************************)
(* The remote API.  A call names the SDK method and its keyword arguments. *)
(***************************************************************************)
Call(op, kw) == [op |-> op, kw |-> kw]

\* The value of keyword argument `name` of a call ("" when not passed).
kwarg(call, name) ==
    LET hits == {i \in DOMAIN call.kw : call.kw[i][1] = name}
    IN  IF hits = {} THEN "" ELSE call.kw[CHOOSE i \in hits : TRUE][2]

\* utils.determine_error(e) of the exception a failing remote call raises.
api_error(op) == "ApiException in " \o op

\* The records of a listing of the cluster; every record carries more
\* fields than any handler projects.
sample_items(kind, scope_tag) ==
    << [id |-> kind \o "-1" \o scope_tag, name |-> kind \o "-one",
        description |-> "first " \o kind],
       [id |-> kind \o "-2" \o scope_tag, name |-> kind \o "-two",
        description |-> "second " \o kind] >>

sample_clients ==
    << [local_addr |-> "10.0.0.1", local_name |-> "node1",
        remote_addr |-> "10.1.0.9", remote_name |-> "client9",
        node |-> 1, protocol |-> "nfs3", time_in |-> 12],
       [local_addr |-> "10.0.0.2", local_name |-> "node2",
        remote_addr |-> "10.1.0.7", remote_name |-> "client7",
        node |-> 2, protocol |-> "smb2", time_in |-> 40] >>

sample_exports(zone) ==
    << [id |-> 1, paths |-> <<"/ifs/" \o zone \o "/a">>, zone |-> zone],
       [id |-> 2, paths |-> <<"/ifs/" \o zone \o "/b">>, zone |-> zone] >>

sample_policies ==
    << [name |-> "pol-one", id |-> "pol-1", source_root_path |-> "/ifs/src1",
        target_path |-> "/ifs/dst1", action |-> "sync",
        schedule |-> "daily", enabled |-> TRUE, target_host |-> "peer1"],
       [name |-> "pol-two", id |-> "pol-2", source_root_path |-> "/ifs/src2",
        target_path |-> "/ifs/dst2", action |-> "copy",
        schedule |-> "", enabled |-> FALSE, target_host |-> "peer2"] >>

sample_reports(kind) ==
    << [id |-> kind \o "-1", policy_name |-> "pol-one", state |-> "finished"],
       [id |-> kind \o "-2", policy_name |-> "pol-two", state |-> "failed"] >>

\* The operations of the SDK and of the shared library that read: those
\* named get_... and list_...; any other operation changes the cluster.
reads(op) == SubSeq(op, 1, 4) = "get_" \/ SubSeq(op, 1, 5) = "list_"

\* The cluster after the calls of `issued` were served: a call that raised
\* or that reads leaves it as it was, any other is recorded as a change.
RECURSIVE after(_, _)
after(cl, issued) ==
    IF Len(issued) = 0 THEN cl
    ELSE LET call == Head(issued)
         IN  after(IF reads(call.op) \/ call.op \in cl.failing
                   THEN cl
                   ELSE [cl EXCEPT !.changes = Append(@, call)],
                   Tail(issued))

\* A sub-list of an answer: null when the cluster has none to give for the
\* operation (to_dict() of an unset attribute), the list otherwise.
sub_list(op, value) == IF op \in cluster.absent THEN None ELSE value

listing(op, items) == sub_list(op, PyList(items))

\* The answer of a report listing; one without reports counts none.
reports_of(op, details) ==
    IF op \in cluster.absent
    THEN [total |-> 0, reports |-> None]
    ELSE details

\* What the cluster answers to a call that does not raise (after to_dict()).
response(call) ==
    LET op == call.op
        zone == kwarg(call, "zone")
    IN  CASE op = "get_cluster_config" ->
               [name |-> "cluster1", onefs_version |-> "9.5.0.0"]
          [] op = "get_cluster_external_ips" -> <<"10.0.0.1", "10.0.0.2">>
          [] op = "get_cluster_identity" ->
               [name |-> "cluster1", logon |-> [motd |-> "welcome"]]
          [] op = "get_cluster_owner" -> [company |-> "acme"]
          [] op = "get_cluster_version" -> [nodes |-> <<"9.5.0.0">>]
          [] op = "list_zones" ->
               [zones |-> sample_items("zone", ""), total |-> 2]
          [] op = "get_cluster_nodes" ->
               [nodes |-> sample_items("node", ""), total |-> 2]
          [] op = "get_providers_summary" ->
               [provider_instances |-> sample_items("provider", "@" \o zone)]
          [] op = "list_auth_users" ->
               [users |-> sample_items("user", "@" \o zone)]
          [] op = "list_auth_groups" ->
               [groups |-> sample_items("group", "@" \o zone)]
          [] op = "list_smb_shares" ->
               [shares |-> listing(op, sample_items("share", "@" \o zone)),
                total |-> 2]
          [] op = "get_summary_client" ->
               [client |-> listing(op, sample_clients)]
          [] op = "list_nfs_exports" ->
               [exports |-> listing(op, sample_exports(zone)), total |-> 2]
          [] op = "list_nfs_aliases" ->
               [aliases |-> listing(op, sample_items("alias", "@" \o zone)),
                total |-> 2]
          [] op = "get_sync_reports" -> reports_of(op, cluster.sync_reports)
          [] op = "get_target_reports" ->
               reports_of(op, cluster.target_reports)
          [] op = "list_sync_policies" ->
               [policies |-> listing(op, sample_policies), total |-> 2]
          [] op = "list_certificates_peer" ->
               [certificates |-> listing(op, sample_items("cert", "")),
                total |-> 2]
          [] op = "list_sync_rules" ->
               [rules |-> sub_list(op, cluster.sync_rules), total |-> 2]
          [] op = "list_network_groupnets" ->
               [groupnets |-> listing(op, sample_items("groupnet", "")),
                total |-> 2]
          [] op = "get_network_pools" ->
               [pools |-> listing(op, sample_items("pool",
                                     "@" \o kwarg(call, "access_zone"))),
                total |-> 2]
          [] op = "get_network_rules" ->
               [rules |-> listing(op, sample_items("rule", "")), total |-> 2]
          [] op = "get_network_interfaces" ->
               [interfaces |-> listing(op, sample_items("interface", "")),
                total |-> 2]
          [] op = "get_network_subnets" ->
               [subnets |-> listing(op, sample_items("subnet", "")), total |-> 2]
          [] op = "get_nfs_settings_zone" ->
               [settings |-> PyDict([nfsv3_enabled |-> TRUE,
                                     nfsv4_domain |-> "dom." \o zone])]
          [] op = "list_storagepool_nodepools" ->
               [nodepools |-> listing(op, sample_items("nodepool", "")),
                total |-> 2]
          [] op = "list_storagepool_tiers" ->
               [tiers |-> listing(op, sample_items("tier", "")), total |-> 2]
          [] op = "get_smb_openfiles" ->
               [openfiles |-> listing(op, sample_items("openfile", "")),
                total |-> 2]
          [] op = "list_providers_ldap" ->
               [ldap |-> listing(op, sample_items("ldap",
                                    "@" \o kwarg(call, "scope")))]
          [] op = "get_mapping_users_rules" ->
               [rules |-> PyDict([parameters |-> [zone |-> zone],
                                  rules |-> sub_list(op, cluster.mapping_rules)])]
          [] op = "get_nfs_settings_global" ->
               [settings |-> PyDict([nfsv3_enabled |-> TRUE,
                                     service |-> TRUE])]
          [] op = "get_server_certificate_with_default" ->
               PyList(sample_items("certificate", ""))
          [] OTHER -> PyDict([resource |-> op, kw |-> call.kw])

\* self.<area>_api.<op>(**kw): raises, or returns the cluster's answer.
api(call) ==
    IF call.op \in cluster.failing
    THEN [raised |-> TRUE, cause |-> api_error(call.op)]
    ELSE [raised |-> FALSE, data |-> response(call)]

(***************************************************************************)
(* The category handlers of class Info.  Each is a try block of remote     *)
(* calls and a reshaping of the answer; `except Exception` turns whatever  *)
(* was raised in it into fail_json(msg=error_msg).  A handler yields       *)
(*   [ok, calls, value, msg]: the calls it issued, and either the value it *)
(* returned or the message it failed with.                                 *)
(***************************************************************************)
Returned(issued, value) ==
    [ok |-> TRUE, calls |-> issued, value |-> value, msg |-> ""]

Failed(issued, msg) ==
    [ok |-> FALSE, calls |-> issued, value |-> None, msg |-> msg]

\* d[key] = value on a dict held as a function.
set_item(d, key, value) ==
    [k \in (DOMAIN d) \cup {key} |-> IF k = key THEN value ELSE d[k]]

\* The index of the first call of `issued` that raises, 0 when none does.
first_raising(issued) ==
    LET bad == {i \in DOMAIN issued : api(issued[i]).raised}
    IN  IF bad = {} THEN 0 ELSE CHOOSE i \in bad : \A j \in bad : i <= j

\* What Python raises on None where a list or dict is needed.
not_iterable == "'NoneType' object is not iterable"
not_subscriptable == "'NoneType' object is not subscriptable"
index_out_of_range == "list index out of range"
unbound_unit == "local variable 'unit' referenced before assignment"

\* Variant: when a call raises, the parts fetched before it are returned.
get_attributes_list_partial ==
    LET issued == << Call("get_cluster_config", <<>>),
                     Call("get_cluster_external_ips", <<>>),
                     Call("get_cluster_identity", <<>>),
                     Call("get_cluster_owner", <<>>),
                     Call("get_cluster_version", <<>>) >>
        k == first_raising(issued)
        part(i) == IF k # 0 /\ i >= k THEN EmptyDict.v
                   ELSE IF i = 2
                   THEN [External_IPs |-> join(",", api(issued[2]).data)]
                   ELSE api(issued[i]).data
    IN  Returned(IF k # 0 THEN SubSeq(issued, 1, k) ELSE issued,
                 PyDict([Config |-> part(1),
                         Contact_Info |-> part(4),
                         External_IP |-> part(2),
                         Logon_msg |-> part(3),
                         Cluster_Version |-> part(5)]))

get_attributes_list ==
    LET issued == << Call("get_cluster_config", <<>>),
                     Call("get_cluster_external_ips", <<>>),
                     Call("get_cluster_identity", <<>>),
                     Call("get_cluster_owner", <<>>),
                     Call("get_cluster_version", <<>>) >>
        k == first_raising(issued)
        config == api(issued[1]).data
        ips == api(issued[2]).data
        external_ips == [External_IPs |-> join(",", ips)]
        logon_msg == api(issued[3]).data
        contact_info == api(issued[4]).data
        cluster_version == api(issued[5]).data
    IN  IF k # 0
        THEN Failed(SubSeq(issued, 1, k),
                    "Get Attributes List for PowerScale cluster: "
                    \o params.onefs_host \o " failed with error: "
                    \o api(issued[k]).cause)
        ELSE Returned(issued,
                      PyDict([Config |-> config,
                              Contact_Info |-> contact_info,
                              External_IP |-> external_ips,
                              Logon_msg |-> logon_msg,
                              Cluster_Version |-> cluster_version]))

\* Variant: a call that raised is issued once more before giving up.
get_access_zones_list_retrying ==
    LET call == Call("list_zones", <<>>)
        r == api(call)
    IN  IF r.raised
        THEN Failed(<<call, call>>,
                    "Get Access zone List for PowerScale cluster: "
                    \o params.onefs_host \o " failedwith error: " \o r.cause)
        ELSE Returned(<<call>>, PyDict(r.data))

get_access_zones_list ==
    LET call == Call("list_zones", <<>>)
        r == api(call)
    IN  IF r.raised
        THEN Failed(<<call>>,
                    "Get Access zone List for PowerScale cluster: "
                    \o params.onefs_host \o " failedwith error: " \o r.cause)
        ELSE Returned(<<call>>, PyDict(r.data))

\* Variant: the message of the failure says only what was attempted.
get_nodes_list_bare_message ==
    LET call == Call("get_cluster_nodes", <<>>)
        r == api(call)
    IN  IF r.raised
        THEN Failed(<<call>>, "Get Nodes List failed")
        ELSE Returned(<<call>>, PyDict(r.data))

get_nodes_list ==
    LET call == Call("get_cluster_nodes", <<>>)
        r == api(call)
    IN  IF r.raised
        THEN Failed(<<call>>,
                    "Get Nodes List for PowerScale cluster: "
                    \o params.onefs_host \o " failed witherror: " \o r.cause)
        ELSE Returned(<<call>>, PyDict(r.data))

get_providers_list(access_zone) ==
    LET call == Call("get_providers_summary", << <<"zone", access_zone>> >>)
        r == api(call)
    IN  IF r.raised
        THEN Failed(<<call>>,
                    "Get authentication Providers List for PowerScale"
                    \o " cluster: " \o params.onefs_host
                    \o " failed with error: " \o r.cause)
        ELSE Returned(<<call>>, PyDict(r.data))

\* Variant: with include_all_access_zones the users of every zone are
\* asked for, the call naming no zone.
get_users_list_of_all_zones(access_zone) ==
    LET call == IF params.include_all_access_zones = "True"
                THEN Call("list_auth_users", <<>>)
                ELSE Call("list_auth_users", << <<"zone", access_zone>> >>)
        r == api(call)
    IN  IF r.raised
        THEN Failed(<<call>>,
                    "Get Users List for PowerScale cluster: "
                    \o params.onefs_host \o " and access zone: "
                    \o access_zone \o " failed with error: " \o r.cause)
        ELSE Returned(<<call>>, PyDict(r.data))

get_users_list(access_zone) ==
    LET call == Call("list_auth_users", << <<"zone", access_zone>> >>)
        r == api(call)
    IN  IF r.raised
        THEN Failed(<<call>>,
                    "Get Users List for PowerScale cluster: "
                    \o params.onefs_host \o " and access zone: "
                    \o access_zone \o " failed with error: " \o r.cause)
        ELSE Returned(<<call>>, PyDict(r.data))

get_groups_list(access_zone) ==
    LET call == Call("list_auth_groups", << <<"zone", access_zone>> >>)
        r == api(call)
    IN  IF r.raised
        THEN Failed(<<call>>,
                    "Get Group List for PowerScale cluster: "
                    \o params.onefs_host \o " andaccess zone: "
                    \o access_zone \o " failed with error: " \o r.cause)
        ELSE Returned(<<call>>, PyDict(r.data))

get_smb_shares_list(access_zone) ==
    LET call == Call("list_smb_shares", << <<"zone", access_zone>> >>)
        r == api(call)
        smb_shares == r.data.shares
        smb_shares_list ==
            IF Truthy(smb_shares)
            THEN [i \in DOMAIN smb_shares.v |->
                     [id |-> smb_shares.v[i].id,
                      name |-> smb_shares.v[i].name]]
            ELSE <<>>
    IN  IF r.raised
        THEN Failed(<<call>>,
                    "Get smb_shares list for PowerScale cluster: "
                    \o params.onefs_host \o " failed witherror: " \o r.cause)
        ELSE Returned(<<call>>, PyList(smb_shares_list))

get_clients_list ==
    LET call == Call("get_summary_client", <<>>)
        r == api(call)
        clients == r.data.client
        clients_list ==
            IF Truthy(clients)
            THEN [i \in DOMAIN clients.v |->
                     [local_address |-> clients.v[i].local_addr,
                      local_name |-> clients.v[i].local_name,
                      remote_address |-> clients.v[i].remote_addr,
                      remote_name |-> clients.v[i].remote_name,
                      node |-> clients.v[i].node,
                      protocol |-> clients.v[i].protocol]]
            ELSE <<>>
    IN  IF r.raised
        THEN Failed(<<call>>,
                    "Get active clients list for PowerScale cluster: "
                    \o params.onefs_host \o " failed witherror: " \o r.cause)
        ELSE Returned(<<call>>, PyList(clients_list))

get_nfs_exports_list(access_zone) ==
    LET call == Call("list_nfs_exports", << <<"zone", access_zone>> >>)
        r == api(call)
        nfs_exports == r.data.exports
        nfs_exports_list ==
            IF Truthy(nfs_exports)
            THEN [i \in DOMAIN nfs_exports.v |->
                     [id |-> nfs_exports.v[i].id,
                      paths |-> nfs_exports.v[i].paths]]
            ELSE <<>>
    IN  IF r.raised
        THEN Failed(<<call>>,
                    "Get nfs_exports list for PowerScale cluster: "
                    \o params.onefs_host \o " failed witherror: " \o r.cause)
        ELSE Returned(<<call>>, PyList(nfs_exports_list))

get_nfs_aliases_list(access_zone) ==
    LET call == Call("list_nfs_aliases",
                     << <<"zone", access_zone>>, <<"check", "True">> >>)
        r == api(call)
    IN  IF r.raised
        THEN Failed(<<call>>,
                    "Getting list of NFS aliases for PowerScale: "
                    \o params.onefs_host \o " failed with error: "
                    \o r.cause)
        ELSE Returned(<<call>>, r.data.aliases)

\* The loop `for i in range(details['total'])` over details['reports'][i]
\* shared by the two report handlers: [raised, cause] or [raised, value].
reports_loop(details) ==
    LET total == details.total
        reports == details.reports
    IN  IF total <= 0
        THEN [raised |-> FALSE, value |-> <<>>]
        ELSE IF reports.py = "None"
        THEN [raised |-> TRUE, cause |-> not_subscriptable]
        ELSE IF total > Len(reports.v)
        THEN [raised |-> TRUE, cause |-> index_out_of_range]
        ELSE [raised |-> FALSE,
              value |-> [i \in 1..total |->
                            [id |-> reports.v[i].id,
                             name |-> reports.v[i].policy_name]]]

get_synciq_reports ==
    LET call == Call("get_sync_reports", <<>>)
        r == api(call)
        loop == reports_loop(r.data)
        cause == IF r.raised THEN r.cause ELSE loop.cause
    IN  IF r.raised \/ loop.raised
        THEN Failed(<<call>>,
                    "Get SyncIQ Report list for PowerScale cluster: "
                    \o params.onefs_host \o " failed witherror: " \o cause)
        ELSE Returned(<<call>>, PyList(loop.value))

get_syniq_policies_list ==
    LET call == Call("list_sync_policies", <<>>)
        r == api(call)
        policies == r.data.policies
        policies_list ==
            IF Truthy(policies)
            THEN [i \in DOMAIN policies.v |->
                     [name |-> policies.v[i].name,
                      id |-> policies.v[i].id,
                      source_root_path |-> policies.v[i].source_root_path,
                      target_path |-> policies.v[i].target_path,
                      action |-> policies.v[i].action,
                      schedule |-> policies.v[i].schedule,
                      enabled |-> policies.v[i].enabled]]
            ELSE <<>>
    IN  IF r.raised
        THEN Failed(<<call>>,
                    "Get list of SyncIQ Policies for PowerScale: "
                    \o params.onefs_host \o " failed witherror: " \o r.cause)
        ELSE Returned(<<call>>, PyList(policies_list))

get_synciq_target_reports ==
    LET call == Call("get_target_reports", <<>>)
        r == api(call)
        loop == reports_loop(r.data)
        cause == IF r.raised THEN r.cause ELSE loop.cause
    IN  IF r.raised \/ loop.raised
        THEN Failed(<<call>>,
                    "Get SyncIQ Target Report list for PowerScale cluster: "
                    \o params.onefs_host \o " failed witherror: " \o cause)
        ELSE Returned(<<call>>, PyList(loop.value))

get_synciq_target_cluster_certificates_list ==
    LET call == Call("list_certificates_peer", <<>>)
        r == api(call)
        certs == r.data.certificates
        cert_list ==
            IF Truthy(certs)
            THEN [i \in DOMAIN certs.v |->
                     [name |-> certs.v[i].name, id |-> certs.v[i].id]]
            ELSE <<>>
    IN  IF r.raised
        THEN Failed(<<call>>,
                    "Get list of SyncIQ target cluster certificates for "
                    \o "PowerScale: " \o params.onefs_host
                    \o " failed witherror: " \o r.cause)
        ELSE Returned(<<call>>, PyList(cert_list))

\* Variant: a type outside the four known ones gets the empty unit.
get_sync_rule_limit_unit_or_none(limit, type) ==
    LET unit == IF type = "bandwidth" THEN "kb/s"
                ELSE IF type = "cpu" THEN "%"
                ELSE IF type = "file_count" THEN "files/sec"
                ELSE IF type = "worker" THEN "%"
                ELSE ""
    IN  [raised |-> FALSE, value |-> str_of_int(limit) \o unit]

\* Variant: the worker branch carries the unit of the bandwidth branch.
get_sync_rule_limit_unit_worker(limit, type) ==
    LET unit == IF type = "bandwidth" THEN "kb/s"
                ELSE IF type = "cpu" THEN "%"
                ELSE IF type = "file_count" THEN "files/sec"
                ELSE IF type = "worker" THEN "kb/s"
                ELSE "<unbound>"
    IN  IF type \in {"bandwidth", "cpu", "file_count", "worker"}
        THEN [raised |-> FALSE, value |-> str_of_int(limit) \o unit]
        ELSE [raised |-> TRUE, cause |-> unbound_unit]

\* get_sync_rule_limit_unit(limit, type): str(limit) + unit, where `unit`
\* is bound by the if/elif chain only for the four known types.
get_sync_rule_limit_unit(limit, type) ==
    LET unit == IF type = "bandwidth" THEN "kb/s"
                ELSE IF type = "cpu" THEN "%"
                ELSE IF type = "file_count" THEN "files/sec"
                ELSE IF type = "worker" THEN "%"
                ELSE "<unbound>"
    IN  IF type \in {"bandwidth", "cpu", "file_count", "worker"}
        THEN [raised |-> FALSE, value |-> str_of_int(limit) \o unit]
        ELSE [raised |-> TRUE, cause |-> unbound_unit]

get_synciq_performance_rules ==
    LET call == Call("list_sync_rules", <<>>)
        r == api(call)
        rules == r.data.rules
        limit_of(rule) == get_sync_rule_limit_unit(rule.limit, rule.type)
        loop ==
            IF rules.py = "None"
            THEN [raised |-> TRUE, cause |-> not_iterable]
            ELSE IF \E i \in DOMAIN rules.v : limit_of(rules.v[i]).raised
            THEN [raised |-> TRUE, cause |-> unbound_unit]
            ELSE [raised |-> FALSE,
                  value |-> [i \in DOMAIN rules.v |->
                                [id |-> rules.v[i].id,
                                 schedule |-> rules.v[i].schedule,
                                 enabled |-> rules.v[i].enabled,
                                 type |-> rules.v[i].type,
                                 limit |-> limit_of(rules.v[i]).value]]]
        cause == IF r.raised THEN r.cause ELSE loop.cause
    IN  IF r.raised \/ loop.raised
        THEN Failed(<<call>>,
                    "Get SyncIQ performance rules list for PowerScale "
                    \o "cluster: " \o params.onefs_host
                    \o " failed witherror: " \o cause)
        ELSE Returned(<<call>>, PyList(loop.value))

get_network_groupnets ==
    LET call == Call("list_network_groupnets", <<>>)
        r == api(call)
        groupnets == r.data.groupnets
        network_groupnet_list ==
            IF Truthy(groupnets)
            THEN [i \in DOMAIN groupnets.v |->
                     [id |-> groupnets.v[i].id,
                      name |-> groupnets.v[i].name]]
            ELSE <<>>
    IN  IF r.raised
        THEN Failed(<<call>>,
                    "Getting list of network groupnets for PowerScale: "
                    \o params.onefs_host \o " failed with error: "
                    \o r.cause)
        ELSE Returned(<<call>>, PyList(network_groupnet_list))

\* Variant: the zone filter is passed whatever include_all_access_zones is.
get_network_pools_filtered(access_zone, include_all_access_zones) ==
    LET call == Call("get_network_pools",
                     << <<"access_zone", access_zone>> >>)
        r == api(call)
        pools == r.data.pools
        network_pool_list ==
            IF Truthy(pools)
            THEN [i \in DOMAIN pools.v |->
                     [id |-> pools.v[i].id, name |-> pools.v[i].name]]
            ELSE <<>>
    IN  IF r.raised
        THEN Failed(<<call>>,
                    "Getting list of network pools for PowerScale: "
                    \o params.onefs_host \o " failed with error: "
                    \o r.cause)
        ELSE Returned(<<call>>, PyList(network_pool_list))

get_network_pools(access_zone, include_all_access_zones) ==
    LET call == IF include_all_access_zones = "True"
                THEN Call("get_network_pools", <<>>)
                ELSE Call("get_network_pools",
                          << <<"access_zone", access_zone>> >>)
        r == api(call)
        pools == r.data.pools
        network_pool_list ==
            IF Truthy(pools)
            THEN [i \in DOMAIN pools.v |->
                     [id |-> pools.v[i].id, name |-> pools.v[i].name]]
            ELSE <<>>
    IN  IF r.raised
        THEN Failed(<<call>>,
                    "Getting list of network pools for PowerScale: "
                    \o params.onefs_host \o " failed with error: "
                    \o r.cause)
        ELSE Returned(<<call>>, PyList(network_pool_list))

get_network_rules ==
    LET call == Call("get_network_rules", <<>>)
        r == api(call)
        rules == r.data.rules
        network_rule_list ==
            IF Truthy(rules)
            THEN [i \in DOMAIN rules.v |->
                     [id |-> rules.v[i].id, name |-> rules.v[i].name]]
            ELSE <<>>
    IN  IF r.raised
        THEN Failed(<<call>>,
                    "Getting list of network rules for PowerScale: "
                    \o params.onefs_host \o " failed with error: "
                    \o r.cause)
        ELSE Returned(<<call>>, PyList(network_rule_list))

get_network_interfaces ==
    LET call == Call("get_network_interfaces", <<>>)
        r == api(call)
    IN  IF r.raised
        THEN Failed(<<call>>,
                    "Getting list of network interfaces for PowerScale: "
                    \o params.onefs_host \o " failed with error: "
                    \o r.cause)
        ELSE Returned(<<call>>, r.data.interfaces)

get_network_subnets ==
    LET call == Call("get_network_subnets", <<>>)
        r == api(call)
        subnets == r.data.subnets
        network_subnet_list ==
            IF Truthy(subnets)
            THEN [i \in DOMAIN subnets.v |->
                     [id |-> subnets.v[i].id, name |-> subnets.v[i].name]]
            ELSE <<>>
    IN  IF r.raised
        THEN Failed(<<call>>,
                    "Getting list of network subnets for PowerScale: "
                    \o params.onefs_host \o " failed with error: "
                    \o r.cause)
        ELSE Returned(<<call>>, PyList(network_subnet_list))

\* Variant: the settings are returned as they came, without the zone.
get_zone_settings_as_received(access_zone) ==
    LET call == Call("get_nfs_settings_zone", << <<"zone", access_zone>> >>)
        r == api(call)
        nfs_zone_settings == r.data.settings
        absent == nfs_zone_settings.py = "None"
        cause == IF r.raised THEN r.cause
                 ELSE "'NoneType' object does not support item assignment"
    IN  IF r.raised \/ absent
        THEN Failed(<<call>>,
                    "Getting zone settings for PowerScale: "
                    \o params.onefs_host \o " failed with error: " \o cause)
        ELSE Returned(<<call>>, PyDict(nfs_zone_settings.v))

\* Variant: the zone settings are asked for in the scope of the caller.
get_zone_settings_scoped(access_zone) ==
    LET call == Call("get_nfs_settings_zone",
                     << <<"zone", access_zone>>, <<"scope", params.scope>> >>)
        r == api(call)
        nfs_zone_settings == r.data.settings
        absent == nfs_zone_settings.py = "None"
        cause == IF r.raised THEN r.cause
                 ELSE "'NoneType' object does not support item assignment"
    IN  IF r.raised \/ absent
        THEN Failed(<<call>>,
                    "Getting zone settings for PowerScale: "
                    \o params.onefs_host \o " failed with error: " \o cause)
        ELSE Returned(<<call>>,
                      PyDict(set_item(nfs_zone_settings.v, "zone",
                                      access_zone)))

get_zone_settings(access_zone) ==
    LET call == Call("get_nfs_settings_zone", << <<"zone", access_zone>> >>)
        r == api(call)
        nfs_zone_settings == r.data.settings
        absent == nfs_zone_settings.py = "None"
        cause == IF r.raised THEN r.cause
                 ELSE "'NoneType' object does not support item assignment"
    IN  IF r.raised \/ absent
        THEN Failed(<<call>>,
                    "Getting zone settings for PowerScale: "
                    \o params.onefs_host \o " failed with error: " \o cause)
        ELSE Returned(<<call>>,
                      PyDict(set_item(nfs_zone_settings.v, "zone",
                                      access_zone)))

get_node_pools ==
    LET call == Call("list_storagepool_nodepools", <<>>)
        r == api(call)
    IN  IF r.raised
        THEN Failed(<<call>>,
                    "Getting list of node pools for PowerScale: "
                    \o params.onefs_host \o " failed with error: "
                    \o r.cause)
        ELSE Returned(<<call>>, r.data.nodepools)

get_storagepool_tiers ==
    LET call == Call("list_storagepool_tiers", <<>>)
        r == api(call)
    IN  IF r.raised
        THEN Failed(<<call>>,
                    "Getting list of storagepool tiers for PowerScale: "
                    \o params.onefs_host \o " failed with error: "
                    \o r.cause)
        ELSE Returned(<<call>>, r.data.tiers)

\* Variant: the open files are closed once they have been listed.
get_smb_files_closing ==
    LET call == Call("get_smb_openfiles", <<>>)
        r == api(call)
    IN  IF r.raised
        THEN Failed(<<call>>,
                    "Getting list of smb open files for PowerScale: "
                    \o params.onefs_host \o " failed with error: "
                    \o r.cause)
        ELSE Returned(<<call, Call("delete_smb_openfile", <<>>)>>,
                      r.data.openfiles)

get_smb_files ==
    LET call == Call("get_smb_openfiles", <<>>)
        r == api(call)
    IN  IF r.raised
        THEN Failed(<<call>>,
                    "Getting list of smb open files for PowerScale: "
                    \o params.onefs_host \o " failed with error: "
                    \o r.cause)
        ELSE Returned(<<call>>, r.data.openfiles)

get_ldap_providers(scope) ==
    LET call == Call("list_providers_ldap", << <<"scope", scope>> >>)
        r == api(call)
    IN  IF r.raised
        THEN Failed(<<call>>,
                    "Getting list of ldap providers for PowerScale: "
                    \o params.onefs_host \o " failed with error: "
                    \o r.cause)
        ELSE Returned(<<call>>, r.data.ldap)

\* Variant: apply_order is the count of enumerate() itself.
get_user_mapping_rules_from_zero(access_zone) ==
    LET call == Call("get_mapping_users_rules",
                     << <<"zone", access_zone>> >>)
        r == api(call)
        outer == r.data.rules
        rules == outer.v.rules
        loop ==
            IF outer.py = "None"
            THEN [raised |-> TRUE, cause |-> not_subscriptable]
            ELSE IF rules.py = "None"
            THEN [raised |-> TRUE, cause |-> not_iterable]
            ELSE [raised |-> FALSE,
                  value |-> [count \in DOMAIN rules.v |->
                                set_item(rules.v[count], "apply_order",
                                         count - 1)]]
        cause == IF r.raised THEN r.cause ELSE loop.cause
    IN  IF r.raised \/ loop.raised
        THEN Failed(<<call>>,
                    "Getting list of user mapping rules for PowerScale: "
                    \o params.onefs_host \o " failed with error: " \o cause)
        ELSE Returned(<<call>>, PyList(loop.value))

get_user_mapping_rules(access_zone) ==
    LET call == Call("get_mapping_users_rules",
                     << <<"zone", access_zone>> >>)
        r == api(call)
        outer == r.data.rules
        rules == outer.v.rules
        loop ==
            IF outer.py = "None"
            THEN [raised |-> TRUE, cause |-> not_subscriptable]
            ELSE IF rules.py = "None"
            THEN [raised |-> TRUE, cause |-> not_iterable]
            ELSE [raised |-> FALSE,
                  value |-> [count \in DOMAIN rules.v |->
                                set_item(rules.v[count], "apply_order",
                                         (count - 1) + 1)]]
        cause == IF r.raised THEN r.cause ELSE loop.cause
    IN  IF r.raised \/ loop.raised
        THEN Failed(<<call>>,
                    "Getting list of user mapping rules for PowerScale: "
                    \o params.onefs_host \o " failed with error: " \o cause)
        ELSE Returned(<<call>>, PyList(loop.value))

get_nfs_global_settings ==
    LET call == Call("get_nfs_settings_global", <<>>)
        r == api(call)
    IN  IF r.raised
        THEN Failed(<<call>>,
                    "Getting NFS global settings for PowerScale: "
                    \o params.onefs_host \o " failed with error: "
                    \o r.cause)
        ELSE Returned(<<call>>, r.data.settings)

\* A handler of the shared library (Protocol, SyncIQ, Cluster, Certificate,
\* Auth, SupportAssist): one fetch, passed through, or a failure.
shared_library_handler(op, kw) ==
    LET call == Call(op, kw)
        r == api(call)
    IN  IF r.raised
        THEN Failed(<<call>>,
                    op \o " for PowerScale: " \o params.onefs_host
                    \o " failed with error: " \o r.cause)
        ELSE Returned(<<call>>, r.data)

(***************************************************************************)
(* Info.__init__: AnsibleModule(argument_spec, mutually_exclusive) checks  *)
(* what the caller supplied and fills in the defaults of the argument      *)
(* spec; then the prerequisites (the SDK) are checked.                     *)
(***************************************************************************)
\* AnsibleModule: [failed, msg] or [failed, params].  Mutual exclusion is
\* counted on the parameters supplied, before the defaults are applied.
AnsibleModule(a) ==
    IF \E group \in mutually_exclusive_args : group \subseteq a.supplied
    THEN [failed |-> TRUE,
          msg |-> "parameters are mutually exclusive: "
                  \o "access_zone|include_all_access_zones"]
    ELSE IF ~(required_args \subseteq a.supplied)
    THEN [failed |-> TRUE,
          msg |-> "missing required arguments: gather_subset"]
    ELSE IF \E i \in DOMAIN a.gather_subset :
                a.gather_subset[i] \notin Categories
    THEN [failed |-> TRUE,
          msg |-> "value of gather_subset must be one or more of: "
                  \o join(", ", gather_subset_choices)]
    ELSE IF "scope" \in a.supplied /\ a.scope \notin scope_choices
    THEN [failed |-> TRUE,
          msg |-> "value of scope must be one of: effective, user, default"]
    ELSE [failed |-> FALSE,
          params |->
              [onefs_host |-> a.onefs_host,
               include_all_access_zones |->
                   IF "include_all_access_zones" \in a.supplied
                   THEN a.include_all_access_zones ELSE "None",
               access_zone |->
                   IF "access_zone" \in a.supplied
                   THEN a.access_zone ELSE access_zone_default,
               scope |->
                   IF "scope" \in a.supplied
                   THEN a.scope ELSE scope_default,
               gather_subset |-> a.gather_subset]]

no_params ==
    [onefs_host |-> "", include_all_access_zones |-> "None",
     access_zone |-> "", scope |-> "", gather_subset |-> <<>>]

no_returns == [c \in {} |-> None]

fail_json(msg) ==
    [call |-> "fail_json", failed |-> TRUE, msg |-> msg, result |-> <<>>]

\* Variant: the result is emitted with a change reported.
exit_json_changed(result) ==
    [call |-> "exit_json", failed |-> FALSE, msg |-> "",
     result |-> set_item(result, "changed", TRUE)]

\* exit_json emits the keyword arguments it is given, as they are.
exit_json(result) ==
    [call |-> "exit_json", failed |-> FALSE, msg |-> "", result |-> result]

\* main(): obj = Info()
Construct ==
    /\ pc = "main"
    /\ LET module == AnsibleModule(args)
       IN  IF module.failed
           THEN /\ pc' = "failed"
                /\ outputs' = Append(outputs, fail_json(module.msg))
                /\ UNCHANGED params
           ELSE IF ~args.sdk_installed
           THEN /\ pc' = "failed"
                /\ outputs' = Append(outputs,
                                     fail_json("prerequisites are missing"))
                /\ params' = module.params
           ELSE /\ pc' = "constructed"
                /\ params' = module.params
                /\ UNCHANGED outputs
    /\ UNCHANGED << args, cluster, pos, locals, invoked, calls, returned,
                    run, prev >>

(***************************************************************************)
(* perform_module_operation().                                             *)
(***************************************************************************)
\* Variant: the empty gather_subset is reported and the operation goes on.
refuse_empty_subset_goes_on ==
    /\ pc' = "dispatching"
    /\ outputs' = Append(outputs, fail_json("Please specify gather_subset"))
    /\ locals' = initial_locals

\* `if not subset: fail_json(...)`: fail_json ends the process.
refuse_empty_subset ==
    /\ pc' = "failed"
    /\ outputs' = Append(outputs, fail_json("Please specify gather_subset"))
    /\ UNCHANGED locals

\* The parameters are read, an empty gather_subset is refused, and the
\* accumulators are set to their empty values.
Begin ==
    /\ pc = "constructed"
    /\ IF IsEmptyList(params.gather_subset)
       THEN refuse_empty_subset
       ELSE /\ pc' = "dispatching"
            /\ locals' = initial_locals
            /\ UNCHANGED outputs
    /\ pos' = 0
    /\ UNCHANGED << args, cluster, params, invoked, calls, returned, run,
                    prev >>

\* Variant: the test looks for the identifier at the head of the list.
if_test_at_head(i, text) == contains("[" \o repr(if_chain[i]), text)

\* Variant: the test looks for the identifier without its last character.
if_test_without_last_letter(i, text) ==
    contains(SubSeq(if_chain[i], 1, Len(if_chain[i]) - 1), text)

\* Variant: the test looks for the first four characters of the identifier.
if_test_on_prefix(i, text) == contains(SubSeq(if_chain[i], 1, 4), text)

\* Variant: a category fetched by the previous invocation is not fetched
\* again.
if_test_skipping_fetched(i, text) ==
    /\ contains(if_chain[i], text)
    /\ \A k \in DOMAIN prev.invoked : prev.invoked[k] # if_chain[i]

\* The test of the i-th `if`, on text = str(subset): '<id>' in text.
if_test(i, text) == contains(if_chain[i], text)

\* The tests after position p are evaluated in chain order: the index of
\* the first one that is true, 0 when none is.
RECURSIVE first_true_after(_, _)
first_true_after(p, text) ==
    IF p >= Len(if_chain) THEN 0
    ELSE IF if_test(p + 1, text) THEN p + 1
    ELSE first_true_after(p + 1, text)

next_if(p) == first_true_after(p, str_of_list(params.gather_subset))

\* The body of the `if` of category c: the handler it calls.
handler(c) ==
    LET access_zone == params.access_zone
        include_all_access_zones == params.include_all_access_zones
        scope == params.scope
    IN  CASE c = "attributes" -> get_attributes_list
          [] c = "access_zones" -> get_access_zones_list
          [] c = "nodes" -> get_nodes_list
          [] c = "providers" -> get_providers_list(access_zone)
          [] c = "users" -> get_users_list(access_zone)
          [] c = "groups" -> get_groups_list(access_zone)
          [] c = "smb_shares" -> get_smb_shares_list(access_zone)
          [] c = "clients" -> get_clients_list
          [] c = "nfs_exports" -> get_nfs_exports_list(access_zone)
          [] c = "nfs_aliases" -> get_nfs_aliases_list(access_zone)
          [] c = "synciq_reports" -> get_synciq_reports
          [] c = "synciq_target_reports" -> get_synciq_target_reports
          [] c = "synciq_policies" -> get_syniq_policies_list
          [] c = "synciq_target_cluster_certificates" ->
               get_synciq_target_cluster_certificates_list
          [] c = "synciq_performance_rules" -> get_synciq_performance_rules
          [] c = "network_groupnets" -> get_network_groupnets
          [] c = "network_pools" ->
               get_network_pools(access_zone, include_all_access_zones)
          [] c = "network_rules" -> get_network_rules
          [] c = "network_interfaces" -> get_network_interfaces
          [] c = "network_subnets" -> get_network_subnets
          [] c = "node_pools" -> get_node_pools
          [] c = "storagepool_tiers" -> get_storagepool_tiers
          [] c = "smb_files" -> get_smb_files
          [] c = "user_mapping_rules" -> get_user_mapping_rules(access_zone)
          [] c = "ldap" -> get_ldap_providers(scope)
          [] c = "nfs_zone_settings" -> get_zone_settings(access_zone)
          [] c = "nfs_default_settings" ->
               shared_library_handler("get_nfs_default_settings",
                                      << <<"zone", access_zone>> >>)
          [] c = "nfs_global_settings" -> get_nfs_global_settings
          [] c = "synciq_global_settings" ->
               shared_library_handler("get_synciq_global_settings", <<>>)
          [] c = "s3_buckets" ->
               shared_library_handler("get_s3_bucket_list", <<>>)
          [] c = "smb_global_settings" ->
               shared_library_handler("get_smb_global_settings", <<>>)
          [] c = "ntp_servers" ->
               shared_library_handler("get_ntp_server_list", <<>>)
          [] c = "email_settings" ->
               shared_library_handler("get_email_settings", <<>>)
          [] c = "cluster_identity" ->
               shared_library_handler("get_cluster_identity_details", <<>>)
          [] c = "cluster_owner" ->
               shared_library_handler("get_cluster_owner_details", <<>>)
          [] c = "snmp_settings" ->
               shared_library_handler("get_snmp_settings", <<>>)
          [] c = "server_certificate" ->
               shared_library_handler("get_server_certificate_with_default",
                                      <<>>)
          [] c = "roles" ->
               shared_library_handler("get_auth_roles",
                                      << <<"zone", access_zone>> >>)
          [] c = "support_assist_settings" ->
               shared_library_handler("get_support_assist_settings", <<>>)

\* Variant: binding the value of c empties the accumulator bound before.
handler_returned_over_last(c, h) ==
    /\ locals' = [d \in DOMAIN locals |->
                     IF d = c THEN h.value
                     ELSE IF invoked # <<>> /\ d = invoked[Len(invoked)]
                     THEN initial_locals[d]
                     ELSE locals[d]]
    /\ returned' = set_item(returned, c, h.value)
    /\ UNCHANGED << pc, outputs >>

\* A handler returned: its value is bound to the accumulator of c.
handler_returned(c, h) ==
    /\ locals' = [locals EXCEPT ![c] = h.value]
    /\ returned' = set_item(returned, c, h.value)
    /\ UNCHANGED << pc, outputs >>

\* Variant: fail_json reports the failure and the dispatch goes on.
handler_failed_goes_on(h) ==
    /\ outputs' = Append(outputs, fail_json(h.msg))
    /\ UNCHANGED << pc, locals, returned >>

\* A handler failed: self.module.fail_json(msg=error_msg) ends the process.
handler_failed(h) ==
    /\ pc' = "failed"
    /\ outputs' = Append(outputs, fail_json(h.msg))
    /\ UNCHANGED << locals, returned >>

\* The tests are evaluated in chain order up to the next one that is true;
\* its handler runs, and either its value is kept or fail_json ends the
\* invocation.
Dispatch ==
    /\ pc = "dispatching"
    /\ next_if(pos) # 0
    /\ LET i == next_if(pos)
           c == if_chain[i]
           h == handler(c)
       IN  /\ pos' = i
           /\ invoked' = Append(invoked, c)
           /\ calls' = calls \o h.calls
           /\ cluster' = after(cluster, h.calls)
           /\ IF h.ok THEN handler_returned(c, h) ELSE handler_failed(h)
    /\ UNCHANGED << args, params, run, prev >>

\* Variant: after the last test nothing is built and nothing is emitted.
Aggregate_without_exit ==
    /\ pc = "dispatching"
    /\ next_if(pos) = 0
    /\ pos' = Len(if_chain)
    /\ UNCHANGED << args, cluster, pc, params, locals, invoked, calls,
                    returned, outputs, run, prev >>

\* No test after pos is true: the result is built and exit_json emits it.
Aggregate ==
    /\ pc = "dispatching"
    /\ next_if(pos) = 0
    /\ pos' = Len(if_chain)
    /\ pc' = "exited"
    /\ outputs' = Append(outputs, exit_json(build_result(locals)))
    /\ UNCHANGED << args, cluster, params, locals, invoked, calls, returned,
                    run, prev >>

\* The same caller runs the module once more, with the same arguments,
\* against the same cluster: a new process, nothing kept from the last.
Reinvoke ==
    /\ pc \in {"exited", "failed"}
    /\ run < MaxRuns
    /\ run' = run + 1
    /\ prev' = [calls |-> calls, outputs |-> outputs, invoked |-> invoked,
                args |-> args]
    /\ pc' = "main"
    /\ params' = no_params
    /\ pos' = 0
    /\ locals' = initial_locals
    /\ invoked' = <<>>
    /\ calls' = <<>>
    /\ returned' = no_returns
    /\ outputs' = <<>>
    /\ UNCHANGED << args, cluster >>

\* The caller runs the module once more with arguments a, against the same
\* cluster.
invoke_again(a) ==
    /\ pc \in {"exited", "failed"}
    /\ run < MaxRuns
    /\ run' = run + 1
    /\ prev' = [calls |-> calls, outputs |-> outputs, invoked |-> invoked,
                args |-> args]
    /\ args' = a
    /\ pc' = "main"
    /\ params' = no_params
    /\ pos' = 0
    /\ locals' = initial_locals
    /\ invoked' = <<>>
    /\ calls' = <<>>
    /\ returned' = no_returns
    /\ outputs' = <<>>
    /\ UNCHANGED cluster

\* The next run names another access zone, everything else as before.
ReinvokeInOtherZone ==
    \E z \in Zones :
        /\ z # (IF "access_zone" \in args.supplied
                THEN args.access_zone ELSE access_zone_default)
        /\ invoke_again([args EXCEPT !.access_zone = z,
                                     !.supplied = @ \cup {"access_zone"}])

\* The next run names another scope, everything else as before.
ReinvokeWithOtherScope ==
    \E sc \in scope_choices :
        /\ sc # (IF "scope" \in args.supplied
                 THEN args.scope ELSE scope_default)
        /\ invoke_again([args EXCEPT !.scope = sc,
                                     !.supplied = @ \cup {"scope"}])

\* The next run lists the same categories in another way: in another
\* order, or with a category listed more or fewer times.
ReinvokeWithRearrangedList ==
    \E l \in UNION {[1..k -> {args.gather_subset[i] :
                                  i \in DOMAIN args.gather_subset}] :
                       k \in 1..MaxSubsetLen} :
        /\ l # args.gather_subset
        /\ {l[i] : i \in DOMAIN l}
               = {args.gather_subset[i] : i \in DOMAIN args.gather_subset}
        /\ invoke_again([args EXCEPT !.gather_subset = l])

\* The next run lists one category more, everything else as before.
ReinvokeWithOneMore ==
    \E d \in Categories :
        /\ Len(args.gather_subset) < MaxSubsetLen
        /\ \A i \in DOMAIN args.gather_subset : args.gather_subset[i] # d
        /\ invoke_again([args EXCEPT !.gather_subset = Append(@, d)])

(***************************************************************************)
(* Inputs: what a caller may supply, and the clusters it may meet.         *)
(***************************************************************************)
\* The lists of at most n supported identifiers that name at most two
\* different categories, in any order and with repeats.
Lists(n) ==
    UNION {[1..k -> {a, b}] : k \in 0..n, a \in Categories, b \in Categories}

Arguments(supplied, subset, zone, all_zones, scope, sdk) ==
    [supplied |-> supplied, onefs_host |-> "10.10.10.1",
     gather_subset |-> subset, access_zone |-> zone,
     include_all_access_zones |-> all_zones, scope |-> scope,
     sdk_installed |-> sdk]

\* Lists that name an identifier outside the choices: an unrelated word, a
\* word that contains a supported identifier, and a part of one.
UnsupportedLists ==
    UNION { {<<u>>, <<"nodes", u>>, <<u, "nodes">>} :
              u \in {"quotas", "nodes_v2", "node", ""} }

\* Only gather_subset is supplied.
PlainArguments(subset) ==
    Arguments({"gather_subset"}, subset, "", "None", "", TRUE)

\* Every way of supplying or omitting each parameter, gather_subset being
\* omitted, empty or a single identifier.
OptionArguments ==
    { Arguments(supplied,
                IF "gather_subset" \in supplied THEN subset ELSE <<>>,
                IF "access_zone" \in supplied THEN zone ELSE "",
                IF "include_all_access_zones" \in supplied
                THEN all_zones ELSE "None",
                IF "scope" \in supplied THEN scope ELSE "",
                sdk) :
        supplied \in SUBSET {"gather_subset", "access_zone",
                             "include_all_access_zones", "scope"},
        subset \in Lists(1),
        zone \in Zones,
        all_zones \in {"True", "False"},
        scope \in scope_choices,
        sdk \in BOOLEAN }

sync_rule(type, limit) ==
    [id |-> type \o "-rule", schedule |-> "every day", enabled |-> TRUE,
     type |-> type, limit |-> limit, description |-> "a " \o type \o " rule"]

mapping_rule(operator, user) ==
    [operator |-> operator, options |-> [break |-> FALSE],
     target_user |-> [user |-> user]]

HealthyCluster ==
    [failing |-> {}, absent |-> {}, changes |-> <<>>,
     sync_rules |-> PyList(<< sync_rule("bandwidth", 10),
                              sync_rule("cpu", 5) >>),
     mapping_rules |-> PyList(<< mapping_rule("append", "alice"),
                                 mapping_rule("replace", "bob") >>),
     sync_reports |-> [total |-> 2,
                       reports |-> PyList(sample_reports("report"))],
     target_reports |-> [total |-> 2,
                         reports |-> PyList(sample_reports("treport"))]]

\* The remote operations the handler of a category issues.
operations_of(c) ==
    CASE c = "attributes" ->
           {"get_cluster_config", "get_cluster_external_ips",
            "get_cluster_identity", "get_cluster_owner",
            "get_cluster_version"}
      [] c = "access_zones" -> {"list_zones"}
      [] c = "nodes" -> {"get_cluster_nodes"}
      [] c = "providers" -> {"get_providers_summary"}
      [] c = "users" -> {"list_auth_users"}
      [] c = "groups" -> {"list_auth_groups"}
      [] c = "smb_shares" -> {"list_smb_shares"}
      [] c = "clients" -> {"get_summary_client"}
      [] c = "nfs_exports" -> {"list_nfs_exports"}
      [] c = "nfs_aliases" -> {"list_nfs_aliases"}
      [] c = "synciq_reports" -> {"get_sync_reports"}
      [] c = "synciq_target_reports" -> {"get_target_reports"}
      [] c = "synciq_policies" -> {"list_sync_policies"}
      [] c = "synciq_target_cluster_certificates" ->
           {"list_certificates_peer"}
      [] c = "synciq_performance_rules" -> {"list_sync_rules"}
      [] c = "network_groupnets" -> {"list_network_groupnets"}
      [] c = "network_pools" -> {"get_network_pools"}
      [] c = "network_rules" -> {"get_network_rules"}
      [] c = "network_interfaces" -> {"get_network_interfaces"}
      [] c = "network_subnets" -> {"get_network_subnets"}
      [] c = "node_pools" -> {"list_storagepool_nodepools"}
      [] c = "storagepool_tiers" -> {"list_storagepool_tiers"}
      [] c = "smb_files" -> {"get_smb_openfiles"}
      [] c = "user_mapping_rules" -> {"get_mapping_users_rules"}
      [] c = "ldap" -> {"list_providers_ldap"}
      [] c = "nfs_zone_settings" -> {"get_nfs_settings_zone"}
      [] c = "nfs_default_settings" -> {"get_nfs_default_settings"}
      [] c = "nfs_global_settings" -> {"get_nfs_settings_global"}
      [] c = "synciq_global_settings" -> {"get_synciq_global_settings"}
      [] c = "s3_buckets" -> {"get_s3_bucket_list"}
      [] c = "smb_global_settings" -> {"get_smb_global_settings"}
      [] c = "ntp_servers" -> {"get_ntp_server_list"}
      [] c = "email_settings" -> {"get_email_settings"}
      [] c = "cluster_identity" -> {"get_cluster_identity_details"}
      [] c = "cluster_owner" -> {"get_cluster_owner_details"}
      [] c = "snmp_settings" -> {"get_snmp_settings"}
      [] c = "server_certificate" ->
           {"get_server_certificate_with_default"}
      [] c = "roles" -> {"get_auth_roles"}
      [] c = "support_assist_settings" ->
           {"get_support_assist_settings"}

\* The healthy cluster, and the clusters on which exactly one remote
\* operation of a listed category raises.
ClustersFor(subset) ==
    {HealthyCluster} \cup
    { [HealthyCluster EXCEPT !.failing = {op}] :
        op \in UNION {operations_of(subset[i]) : i \in DOMAIN subset} }

Fresh ==
    /\ pc = "main"
    /\ params = no_params
    /\ pos = 0
    /\ locals = initial_locals
    /\ invoked = <<>>
    /\ calls = <<>>
    /\ returned = no_returns
    /\ outputs = <<>>
    /\ run = 1
    /\ prev = [calls |-> <<>>, outputs |-> <<>>, invoked |-> <<>>,
               args |-> args]

Init ==
    /\ \/ /\ args \in {PlainArguments(l) : l \in Lists(MaxSubsetLen)}
          /\ cluster \in ClustersFor(args.gather_subset)
       \/ /\ args \in OptionArguments
          /\ cluster = HealthyCluster
       \/ /\ args \in {PlainArguments(l) : l \in UnsupportedLists}
          /\ cluster = HealthyCluster
    /\ Fresh

Next == Construct \/ Begin \/ Dispatch \/ Aggregate

Spec == Init /\ [][Next]_vars

\* One invocation that is not stopped from outside: main() runs through,
\* each step it can take is taken.  The caller lists attributes and nodes
\* in every way, or an identifier outside the choices, or leaves the SDK
\* out; each remote operation of the listed categories may raise.
LiveLists == UNION {[1..k -> {"attributes", "nodes"}] : k \in 0..MaxSubsetLen}

InitLive ==
    /\ \/ /\ args \in {PlainArguments(l) : l \in LiveLists}
          /\ cluster \in ClustersFor(args.gather_subset)
       \/ /\ args \in {PlainArguments(l) : l \in UnsupportedLists}
                    \cup {Arguments({"gather_subset"}, <<"nodes">>, "",
                                    "None", "", FALSE)}
          /\ cluster = HealthyCluster
    /\ Fresh

SpecLive == InitLive /\ [][Next]_vars /\ WF_vars(Next)

(***************************************************************************)
(* Two more families of behaviours.                                        *)
(***************************************************************************)
SyncRuleTypes == {"bandwidth", "cpu", "file_count", "worker"}

\* The rule lists the cluster may hold: every single rule with a limit up
\* to MaxLimit, and the longer lists over the smallest and largest limit.
SyncRuleLists ==
    {<<>>}
    \cup {<<sync_rule(t, n)>> : t \in SyncRuleTypes, n \in 0..MaxLimit}
    \cup UNION {[1..k -> {sync_rule(t, n) : t \in SyncRuleTypes,
                                            n \in {0, MaxLimit}}] :
                  k \in 2..MaxRules}

\* Rule lists in which at least one rule has a type the module does not
\* know: another word, or the empty text.
UnknownTypeRuleLists ==
    LET pool == {sync_rule("cpu", 5), sync_rule("quota", 5),
                 sync_rule("", MaxLimit)}
    IN  {l \in UNION {[1..k -> pool] : k \in 1..MaxRules} :
            \E i \in DOMAIN l : l[i].type \notin SyncRuleTypes}

MappingRuleLists ==
    UNION {[1..k -> {mapping_rule("append", "alice"),
                     mapping_rule("replace", "bob"),
                     mapping_rule("insert", "carol")}] : k \in 0..MaxRules}

\* The answers a report listing may give: `total` counts the reports the
\* cluster holds, `reports` is the page of them that came back.
ReportListings(kind) ==
    {[total |-> t, reports |-> PyList(SubSeq(sample_reports(kind), 1, k))] :
        t \in 0..MaxReports, k \in 0..Len(sample_reports(kind))}

\* The categories whose handler reads a sub-list of the answer.
ListTyped ==
    {"smb_shares", "clients", "nfs_exports", "nfs_aliases", "synciq_reports",
     "synciq_target_reports", "synciq_policies",
     "synciq_target_cluster_certificates", "synciq_performance_rules",
     "network_groupnets", "network_pools", "network_rules",
     "network_interfaces", "network_subnets", "node_pools",
     "storagepool_tiers", "smb_files", "user_mapping_rules", "ldap"}

\* One data-bearing category is requested from a cluster whose data varies,
\* or from a cluster that has no sub-list to give for it.
InitData ==
    /\ \/ /\ args = PlainArguments(<<"synciq_performance_rules">>)
          /\ cluster \in {[HealthyCluster EXCEPT !.sync_rules = PyList(l)] :
                            l \in SyncRuleLists}
       \/ /\ args = PlainArguments(<<"synciq_performance_rules">>)
          /\ cluster \in {[HealthyCluster EXCEPT !.sync_rules = PyList(l)] :
                            l \in UnknownTypeRuleLists}
       \/ /\ args = PlainArguments(<<"user_mapping_rules">>)
          /\ cluster \in {[HealthyCluster EXCEPT !.mapping_rules = PyList(l)] :
                            l \in MappingRuleLists}
       \/ \E c \in ListTyped :
              /\ args = PlainArguments(<<c>>)
              /\ cluster = [HealthyCluster EXCEPT !.absent = operations_of(c)]
       \/ /\ args = PlainArguments(<<"synciq_reports">>)
          /\ cluster \in {[HealthyCluster EXCEPT !.sync_reports = d] :
                            d \in ReportListings("report")}
       \/ /\ args = PlainArguments(<<"synciq_target_reports">>)
          /\ cluster \in {[HealthyCluster EXCEPT !.target_reports = d] :
                            d \in ReportListings("treport")}
    /\ Fresh

SpecData == InitData /\ [][Next]_vars

\* The module is run again and again by the same caller.
InitRerun ==
    /\ \/ /\ args \in {PlainArguments(l) : l \in Lists(MaxSubsetLen)}
          /\ cluster = HealthyCluster
       \/ /\ args \in {PlainArguments(l) : l \in Lists(1)}
          /\ cluster \in ClustersFor(args.gather_subset)
       \/ /\ args \in OptionArguments
          /\ cluster = HealthyCluster
    /\ Fresh

NextRerun == Next \/ Reinvoke

SpecRerun == InitRerun /\ [][NextRerun]_vars

\* The module is run again with one of access_zone and scope changed.  The
\* first run asks for one category, or for ldap and another one, and may
\* supply any of the optional parameters.
VariedLists ==
    {<<c>> : c \in Categories}
    \cup {<<"ldap", c>> : c \in {"users", "nfs_zone_settings", "roles"}}

InitVaried ==
    /\ args \in
           { Arguments({"gather_subset"} \cup supplied, subset,
                       IF "access_zone" \in supplied THEN zone ELSE "",
                       IF "include_all_access_zones" \in supplied
                       THEN "True" ELSE "None",
                       IF "scope" \in supplied THEN scope ELSE "",
                       TRUE) :
               supplied \in SUBSET {"access_zone", "include_all_access_zones",
                                    "scope"},
               subset \in VariedLists,
               zone \in Zones,
               scope \in scope_choices }
    /\ cluster = HealthyCluster
    /\ Fresh

NextVaried == Next \/ ReinvokeInOtherZone \/ ReinvokeWithOtherScope

SpecVaried == InitVaried /\ [][NextVaried]_vars

\* The module is run again with the same categories listed in another way.
\* The first run lists some of six categories, among them clients,
\* nfs_exports and nfs_aliases, which the dispatch takes in another order
\* than the choices; one remote operation of a listed category may raise.
RearrangedCategories ==
    {"attributes", "nodes", "clients", "nfs_exports", "nfs_aliases", "roles"}

InitRearranged ==
    /\ args \in {PlainArguments(l) :
                    l \in UNION {[1..k -> RearrangedCategories] :
                                    k \in 1..MaxSubsetLen}}
    /\ cluster \in ClustersFor(args.gather_subset)
    /\ Fresh

NextRearranged == Next \/ ReinvokeWithRearrangedList

SpecRearranged == InitRearranged /\ [][NextRearranged]_vars

\* The module is run again with one category added to the list, against a
\* cluster on which every remote operation answers.  The first run lists
\* some of three categories, the second adds any category not yet listed.
InitOneMore ==
    /\ args \in {PlainArguments(l) :
                    l \in UNION {[1..k -> {"attributes", "nodes", "clients"}] :
                                    k \in 1..MaxSubsetLen}}
    /\ cluster = HealthyCluster
    /\ Fresh

NextOneMore == Next \/ ReinvokeWithOneMore

SpecOneMore == InitOneMore /\ [][NextOneMore]_vars

(***************************************************************************)
(* Vocabulary of the properties.                                           *)
(***************************************************************************)
\* The categories the caller listed.
Requested ==
    IF "gather_subset" \in args.supplied
    THEN {args.gather_subset[i] : i \in DOMAIN args.gather_subset}
    ELSE {}

Elements(seq) == {seq[i] : i \in DOMAIN seq}

\* The Report: what exit_json emitted, once it has.
Report == outputs[Len(outputs)].result

\* The output key of each category.
KeyOf ==
    [ attributes |-> "Attributes", access_zones |-> "AccessZones",
      nodes |-> "Nodes", providers |-> "Providers", users |-> "Users",
      groups |-> "Groups", smb_shares |-> "SmbShares",
      clients |-> "Clients", nfs_exports |-> "NfsExports",
      nfs_aliases |-> "NfsAliases", synciq_reports |-> "SynciqReports",
      synciq_target_reports |-> "SynciqTargetReports",
      synciq_policies |-> "SynciqPolicies",
      synciq_target_cluster_certificates |->
          "SynciqTargetClusterCertificate",
      synciq_performance_rules |-> "SynciqPerformanceRules",
      network_groupnets |-> "NetworkGroupnets",
      network_pools |-> "NetworkPools", network_rules |-> "NetworkRules",
      network_interfaces |-> "NetworkInterfaces",
      network_subnets |-> "NetworkSubnets", node_pools |-> "NodePools",
      storagepool_tiers |-> "StoragePoolTiers",
      smb_files |-> "SmbOpenFiles",
      user_mapping_rules |-> "UserMappingRules", ldap |-> "LdapProviders",
      nfs_zone_settings |-> "NfsZoneSettings",
      nfs_default_settings |-> "NfsDefaultSettings",
      nfs_global_settings |-> "NfsGlobalSettings",
      synciq_global_settings |-> "SynciqGlobalSettings",
      s3_buckets |-> "s3Buckets",
      smb_global_settings |-> "SmbGlobalSettings",
      ntp_servers |-> "NTPServers", email_settings |-> "EmailSettings",
      cluster_identity |-> "ClusterIdentity",
      cluster_owner |-> "ClusterOwner", snmp_settings |-> "SnmpSettings",
      server_certificate |-> "ServerCertificate", roles |-> "roles",
      support_assist_settings |-> "support_assist_settings" ]

\* The position of a category in a list of identifiers.
IndexIn(seq, c) == CHOOSE i \in DOMAIN seq : seq[i] = c

\* The remote calls in the log that are operations of category c.
CallsOf(c) == {i \in DOMAIN calls : calls[i].op \in operations_of(c)}

\* The handler of category c was called and its remote call raised.
HandlerFailed(c) ==
    /\ c \in Elements(invoked)
    /\ operations_of(c) \cap cluster.failing # {}

(***************************************************************************)
(* C1.  Whenever perform_module_operation succeeds for a non-empty         *)
(* gather_subset of supported identifiers, the Report has all 39 output    *)
(* keys, one per category; the key of a requested category holds exactly   *)
(* what its handler returned, every other key its empty default.           *)
(***************************************************************************)
C1_ReportShape ==
    (pc = "exited" /\ Requested # {}) =>
        /\ DOMAIN Report = {KeyOf[c] : c \in Categories}
        /\ Cardinality(DOMAIN Report) = 39
        /\ \A c \in Categories :
               IF c \in Requested
               THEN /\ c \in DOMAIN returned
                    /\ Report[KeyOf[c]] = returned[c]
               ELSE /\ Report[KeyOf[c]] \in {EmptyList, EmptyDict}
                    /\ Report[KeyOf[c]] = initial_locals[c]

C1_Witness ==
    /\ pc = "exited"
    /\ Requested = {"nodes"}
    /\ Report.Nodes # EmptyList
    /\ Report.NetworkPools = EmptyList

(***************************************************************************)
(* C2.  Fail-fast: once the handler of a requested category has failed, no *)
(* handler later in dispatch order is called, no remote call of a later    *)
(* category is issued, and the Report is never emitted: the error is the   *)
(* only output.                                                            *)
(***************************************************************************)
C2_FailFast ==
    \A c \in Categories :
        HandlerFailed(c) =>
            /\ \A d \in Categories :
                   IndexIn(if_chain, d) > IndexIn(if_chain, c) =>
                       d \notin Elements(invoked) /\ CallsOf(d) = {}
            /\ \A i \in DOMAIN outputs : outputs[i].call # "exit_json"
            /\ Len(outputs) = 1 /\ outputs[1].failed

C2_Witness ==
    /\ args.gather_subset = <<"smb_shares", "nodes">>
    /\ cluster.failing = {"get_cluster_nodes"}
    /\ pc = "failed"
    /\ invoked = <<"nodes">>
    /\ Len(calls) = 1

(***************************************************************************)
(* C3.  The handler of a category that is not in gather_subset is never    *)
(* called, and none of its remote operations is issued.                    *)
(***************************************************************************)
C3_OnlyRequested ==
    \A x \in Categories \ Requested :
        x \notin Elements(invoked) /\ CallsOf(x) = {}

C3_Witness ==
    /\ pc = "exited"
    /\ Requested = {"nfs_global_settings", "synciq_reports"}
    /\ Len(invoked) = 2
    /\ Len(calls) = 2

(***************************************************************************)
(* C4.  An invocation that supplies both a non-default access_zone and     *)
(* include_all_access_zones=true never gets past argument validation: it   *)
(* fails there, with no handler called and no remote call made.            *)
(***************************************************************************)
BothZoneSelectors ==
    /\ {"access_zone", "include_all_access_zones"} \subseteq args.supplied
    /\ args.access_zone # access_zone_default
    /\ args.include_all_access_zones = "True"

C4_MutuallyExclusive ==
    BothZoneSelectors =>
        /\ pc \in {"main", "failed"}
        /\ invoked = <<>> /\ calls = <<>>
        /\ pc = "failed" =>
               /\ Len(outputs) = 1
               /\ outputs[1].failed
               /\ outputs[1].msg = "parameters are mutually exclusive: "
                                   \o "access_zone|include_all_access_zones"

C4_Witness ==
    /\ BothZoneSelectors
    /\ args.gather_subset = <<"network_pools">>
    /\ "gather_subset" \in args.supplied
    /\ args.sdk_installed
    /\ pc = "failed"

(***************************************************************************)
(* C5.  As claimed: an invocation whose gather_subset is empty or absent   *)
(* fails with 'Please specify gather_subset' before any handler is called  *)
(* or any remote call is made, and emits no Report.                        *)
(***************************************************************************)
EmptyOrAbsent ==
    "gather_subset" \notin args.supplied \/ Len(args.gather_subset) = 0

C5_AsClaimed ==
    EmptyOrAbsent =>
        /\ pc \notin {"dispatching", "exited"}
        /\ invoked = <<>> /\ calls = <<>>
        /\ pc = "failed" =>
               /\ Len(outputs) = 1
               /\ outputs[1].failed
               /\ outputs[1].msg = "Please specify gather_subset"

(***************************************************************************)
(* C5, amended.  An invocation whose gather_subset is empty or absent      *)
(* fails before any handler is called or any remote call is made, and      *)
(* emits no Report.  The error is 'Please specify gather_subset' exactly   *)
(* when perform_module_operation is reached, that is when gather_subset    *)
(* was supplied (as an empty list), AnsibleModule accepted the arguments   *)
(* and the prerequisites were found; an absent gather_subset is refused    *)
(* before that, by AnsibleModule, as a missing required argument.          *)
(***************************************************************************)
ReachesOperation ==
    /\ required_args \subseteq args.supplied
    /\ \A group \in mutually_exclusive_args : ~(group \subseteq args.supplied)
    /\ args.sdk_installed

C5_EmptyOrAbsent ==
    EmptyOrAbsent =>
        /\ pc \notin {"dispatching", "exited"}
        /\ invoked = <<>> /\ calls = <<>>
        /\ pc = "failed" =>
               /\ Len(outputs) = 1
               /\ outputs[1].failed
               /\ outputs[1].msg = "Please specify gather_subset"
                      <=> ReachesOperation
               /\ "gather_subset" \notin args.supplied =>
                      outputs[1].msg \in
                          {"missing required arguments: gather_subset",
                           "parameters are mutually exclusive: "
                           \o "access_zone|include_all_access_zones"}

C5_Witness ==
    /\ "gather_subset" \in args.supplied
    /\ Len(args.gather_subset) = 0
    /\ pc = "failed"
    /\ outputs[1].msg = "Please specify gather_subset"

(***************************************************************************)
(* C6.  An invocation has exactly one outcome: nothing is emitted before   *)
(* it ends, and it ends either with the Report, every requested handler    *)
(* having returned and none having failed, or with one error and no        *)
(* Report; never both, never two.                                          *)
(***************************************************************************)
C6_OneOutcome ==
    /\ Len(outputs) <= 1
    /\ (pc \in {"exited", "failed"}) <=> (Len(outputs) = 1)
    /\ pc = "exited" =>
           /\ outputs[1].call = "exit_json" /\ ~outputs[1].failed
           /\ Elements(invoked) = Requested
           /\ Requested = DOMAIN returned
           /\ \A c \in Categories : ~HandlerFailed(c)
    /\ pc = "failed" =>
           /\ outputs[1].call = "fail_json" /\ outputs[1].failed
           /\ DOMAIN outputs[1].result = {}

C6_Witness ==
    /\ pc = "failed"
    /\ Len(invoked) = 2
    /\ DOMAIN returned = {invoked[1]}
    /\ Len(outputs) = 1

(***************************************************************************)
(* C7.  As claimed: the handlers of any two requested categories run in    *)
(* the relative order of their identifiers in the gather_subset choices    *)
(* list, whatever order the caller listed them in.                         *)
(***************************************************************************)
ChoiceRank(c) == IndexIn(gather_subset_choices, c)

C7_AsClaimed ==
    \A i, j \in DOMAIN invoked :
        i < j => ChoiceRank(invoked[i]) < ChoiceRank(invoked[j])

(***************************************************************************)
(* C7, amended.  The handlers of any two requested categories run in a     *)
(* fixed relative order, whatever order the caller listed them in: the     *)
(* order of the choices list, except that clients runs right after         *)
(* smb_shares, before nfs_exports and nfs_aliases.                         *)
(***************************************************************************)
DispatchRank(c) ==
    IF c = "clients"
    THEN 2 * ChoiceRank("smb_shares") + 1
    ELSE 2 * ChoiceRank(c)

C7_FixedOrder ==
    \A i, j \in DOMAIN invoked :
        i < j => DispatchRank(invoked[i]) < DispatchRank(invoked[j])

C7_Witness ==
    /\ args.gather_subset = <<"nfs_aliases", "clients">>
    /\ invoked = <<"clients", "nfs_aliases">>

Digit(d) == SubSeq("0123456789", d + 1, d + 1)

RECURSIVE Decimal(_)
Decimal(n) == IF n < 10 THEN Digit(n) ELSE Decimal(n \div 10) \o Digit(n % 10)

UnitOf ==
    [bandwidth |-> "kb/s", cpu |-> "%", file_count |-> "files/sec",
     worker |-> "%"]

C9_LimitUnit ==
    (pc = "exited" /\ Requested = {"synciq_performance_rules"}) =>
        LET src == cluster.sync_rules.v
            out == Report.SynciqPerformanceRules.v
        IN  /\ Len(out) = Len(src)
            /\ \A i \in DOMAIN src :
                   LET text == Decimal(src[i].limit) \o UnitOf[src[i].type]
                   IN  /\ get_sync_rule_limit_unit(src[i].limit,
                                                   src[i].type).value = text
                       /\ out[i].limit = text

C9_Witness ==
    /\ pc = "exited"
    /\ cluster.sync_rules.v = <<sync_rule("bandwidth", 10)>>
    /\ Report.SynciqPerformanceRules.v[1].limit = "10kb/s"

(***************************************************************************)
(* C10.  For n user-mapping rules returned by the remote API,              *)
(* get_user_mapping_rules returns the n rules in the same order, the rule  *)
(* at position i with apply_order = i.                                     *)
(***************************************************************************)
C10_ApplyOrder ==
    (pc = "exited" /\ Requested = {"user_mapping_rules"}) =>
        LET src == cluster.mapping_rules.v
            out == Report.UserMappingRules.v
        IN  /\ Len(out) = Len(src)
            /\ \A i \in DOMAIN src :
                   /\ out[i].apply_order = i
                   /\ \A k \in DOMAIN src[i] : out[i][k] = src[i][k]

C10_Witness ==
    /\ pc = "exited"
    /\ Len(cluster.mapping_rules.v) = 3
    /\ cluster.mapping_rules.v[1] # cluster.mapping_rules.v[2]
    /\ Report.UserMappingRules.v[3].apply_order = 3

(***************************************************************************)
(* C11.  A requested identifier that has no handler, no `if` block of its  *)
(* own in perform_module_operation, ends the invocation in an error: no    *)
(* handler runs, no remote call is made for the request, and no Report is  *)
(* produced; the identifier is never silently passed over.                 *)
(***************************************************************************)
WithoutHandler ==
    {id \in Requested : id \notin Elements(if_chain)}

NamedAs ==
    [ attributes |-> "Attributes", access_zones |-> "Access zone",
      nodes |-> "Nodes", providers |-> "Providers", users |-> "Users",
      groups |-> "Group", smb_shares |-> "smb_shares",
      clients |-> "clients", nfs_exports |-> "nfs_exports",
      nfs_aliases |-> "NFS aliases", synciq_reports |-> "SyncIQ Report",
      synciq_target_reports |-> "SyncIQ Target Report",
      synciq_policies |-> "SyncIQ Policies",
      synciq_target_cluster_certificates |->
          "SyncIQ target cluster certificates",
      synciq_performance_rules |-> "SyncIQ performance rules",
      network_groupnets |-> "network groupnets",
      network_pools |-> "network pools", network_rules |-> "network rules",
      network_interfaces |-> "network interfaces",
      network_subnets |-> "network subnets", node_pools |-> "node pools",
      storagepool_tiers |-> "storagepool tiers",
      smb_files |-> "smb open files",
      user_mapping_rules |-> "user mapping rules",
      ldap |-> "ldap providers", nfs_zone_settings |-> "zone settings",
      nfs_default_settings |-> "nfs_default_settings",
      nfs_global_settings |-> "NFS global settings",
      synciq_global_settings |-> "synciq_global_settings",
      s3_buckets |-> "s3_bucket",
      smb_global_settings |-> "smb_global_settings",
      ntp_servers |-> "ntp_server", email_settings |-> "email_settings",
      cluster_identity |-> "cluster_identity",
      cluster_owner |-> "cluster_owner", snmp_settings |-> "snmp_settings",
      server_certificate |-> "server_certificate", roles |-> "roles",
      support_assist_settings |-> "support_assist_settings" ]

C12_FailureMessage ==
    (pc = "failed" /\ invoked # <<>>) =>
        LET c == invoked[Len(invoked)]
            msg == outputs[Len(outputs)].msg
        IN  /\ Len(outputs) = 1
            /\ outputs[1].failed
            /\ contains(NamedAs[c], msg)
            /\ contains(args.onefs_host, msg)
            /\ \E op \in operations_of(c) \cap cluster.failing :
                   contains(api_error(op), msg)

C12_Witness ==
    /\ pc = "failed"
    /\ invoked = <<"nodes">>
    /\ cluster.failing = {"get_cluster_nodes"}
    /\ outputs[1].msg =
           "Get Nodes List for PowerScale cluster: 10.10.10.1 failed "
           \o "witherror: ApiException in get_cluster_nodes"

(***************************************************************************)
(* C13.  As claimed: when the answer of the remote call of a list-typed    *)
(* category is well formed but its sub-list is null, the handler does not  *)
(* fail and the category's value in the Report is its empty default, [].   *)
(***************************************************************************)
SubListAbsent(c) ==
    /\ Requested = {c}
    /\ operations_of(c) \subseteq cluster.absent
    /\ cluster.failing = {}

C13_AsClaimed ==
    \A c \in ListTyped :
        (SubListAbsent(c) /\ pc \in {"exited", "failed"}) =>
            /\ pc = "exited"
            /\ Report[KeyOf[c]] = EmptyList

(***************************************************************************)
(* C14.  As claimed, for the two report categories: the output has exactly *)
(* one record per element of the returned 'reports' list, in the order of  *)
(* the list, each record holding only the projected fields (id, and the    *)
(* policy name as name) of its element.                                    *)
(***************************************************************************)
ReportsReturned(c) ==
    IF c = "synciq_reports"
    THEN cluster.sync_reports.reports.v
    ELSE cluster.target_reports.reports.v

C14_AsClaimed ==
    \A c \in {"synciq_reports", "synciq_target_reports"} :
        (/\ Requested = {c}
         /\ cluster.failing = {} /\ cluster.absent = {}
         /\ pc \in {"exited", "failed"}) =>
            /\ pc = "exited"
            /\ LET src == ReportsReturned(c)
                   out == Report[KeyOf[c]].v
               IN  /\ Len(out) = Len(src)
                   /\ \A i \in DOMAIN src :
                          out[i] = [id |-> src[i].id,
                                    name |-> src[i].policy_name]

(***************************************************************************)
(* C15.  When access_zone is not supplied, every handler that consumes the *)
(* zone issues its remote call for zone 'System'; when scope is not        *)
(* supplied, the ldap handler issues its call with scope 'effective'.      *)
(***************************************************************************)
ZoneConsuming ==
    {"providers", "users", "groups", "smb_shares", "nfs_exports",
     "nfs_aliases", "network_pools", "user_mapping_rules",
     "nfs_zone_settings", "nfs_default_settings", "roles"}

ZonePassed(call) ==
    IF call.op = "get_network_pools"
    THEN kwarg(call, "access_zone")
    ELSE kwarg(call, "zone")

C15_Defaults ==
    /\ ("access_zone" \notin args.supplied /\ pc # "main") =>
           /\ pc # "failed" => params.access_zone = "System"
           /\ \A c \in ZoneConsuming : \A k \in CallsOf(c) :
                  \/ ZonePassed(calls[k]) = "System"
                  \/ /\ c = "network_pools"
                     /\ args.include_all_access_zones = "True"
                     /\ calls[k].kw = <<>>
    /\ ("scope" \notin args.supplied /\ pc # "main") =>
           /\ pc # "failed" => params.scope = "effective"
           /\ \A k \in CallsOf("ldap") :
                  calls[k].kw = << <<"scope", "effective">> >>

C15_Witness ==
    /\ args.supplied = {"gather_subset"}
    /\ pc = "exited"
    /\ invoked = <<"users", "ldap">>
    /\ kwarg(calls[1], "zone") = "System"
    /\ kwarg(calls[2], "scope") = "effective"

(***************************************************************************)
(* C16.  As claimed: the authentication providers are fetched for the      *)
(* entire cluster, so that two invocations that request providers and      *)
(* differ only in access_zone issue the same remote call and return the    *)
(* same Providers value.                                                   *)
(***************************************************************************)
FormerReport == prev.outputs[Len(prev.outputs)].result

OnlyZoneDiffers ==
    /\ run > 1
    /\ [args EXCEPT !.access_zone = "", !.supplied = @ \ {"access_zone"}]
           = [prev.args EXCEPT !.access_zone = "",
                               !.supplied = @ \ {"access_zone"}]
    /\ args # prev.args

BothExited ==
    /\ pc = "exited"
    /\ Len(prev.outputs) = 1
    /\ prev.outputs[1].call = "exit_json"

C16_AsClaimed ==
    (OnlyZoneDiffers /\ BothExited /\ Requested = {"providers"}) =>
        /\ calls = prev.calls
        /\ Report.Providers = FormerReport.Providers

(***************************************************************************)
(* C17.  The network_pools handler uses exactly one zone selector: with    *)
(* include_all_access_zones true it issues the pool listing with no zone   *)
(* filter, otherwise it issues the listing filtered by access_zone; it     *)
(* issues one listing, never both.                                         *)
(***************************************************************************)
C17_OneSelector ==
    /\ Cardinality(CallsOf("network_pools")) <= 1
    /\ "network_pools" \in Elements(invoked) =>
           Cardinality(CallsOf("network_pools")) = 1
    /\ \A k \in CallsOf("network_pools") :
           IF /\ "include_all_access_zones" \in args.supplied
              /\ args.include_all_access_zones = "True"
           THEN calls[k].kw = <<>>
           ELSE calls[k].kw =
                    << <<"access_zone",
                         IF "access_zone" \in args.supplied
                         THEN args.access_zone ELSE "System">> >>

C17_Witness ==
    /\ pc = "exited"
    /\ invoked = <<"network_pools">>
    /\ args.include_all_access_zones = "True"
    /\ "include_all_access_zones" \in args.supplied
    /\ calls = <<[op |-> "get_network_pools", kw |-> <<>>]>>

(***************************************************************************)
(* C18.  scope is consumed by the ldap category only: two invocations that *)
(* differ only in scope end the same way, issue the same remote calls for  *)
(* every category other than ldap and report the same value for it.        *)
(***************************************************************************)
OnlyScopeDiffers ==
    /\ run > 1
    /\ [args EXCEPT !.scope = "", !.supplied = @ \ {"scope"}]
           = [prev.args EXCEPT !.scope = "", !.supplied = @ \ {"scope"}]
    /\ args # prev.args

CallsFor(log, c) == SelectSeq(log, LAMBDA x : x.op \in operations_of(c))

FormerExited ==
    /\ Len(prev.outputs) = 1
    /\ prev.outputs[1].call = "exit_json"

C18_ScopeOnlyLdap ==
    (OnlyScopeDiffers /\ pc \in {"exited", "failed"}) =>
        /\ (pc = "exited") <=> FormerExited
        /\ invoked = prev.invoked
        /\ \A c \in Categories \ {"ldap"} :
               /\ CallsFor(calls, c) = CallsFor(prev.calls, c)
               /\ pc = "exited" =>
                      Report[KeyOf[c]] = FormerReport[KeyOf[c]]
        /\ "ldap" \notin Requested =>
               calls = prev.calls /\ outputs = prev.outputs

C18_Witness ==
    /\ OnlyScopeDiffers
    /\ pc = "exited"
    /\ invoked = <<"users", "ldap">>
    /\ Report.Users = FormerReport.Users
    /\ Report.LdapProviders # FormerReport.LdapProviders
    /\ calls[1] = prev.calls[1]

(***************************************************************************)
(* C19.  No step of any sequence of invocations changes the cluster:       *)
(* every remote operation a handler issues is a read (get or list), and    *)
(* the cluster is after each step what it was before, whether the          *)
(* invocation succeeds or fails.                                           *)
(***************************************************************************)
C19_ReadOnly ==
    [][/\ cluster' = cluster
       /\ \A k \in DOMAIN calls' : reads(calls'[k].op)]_vars

C19_Witness ==
    /\ run = 2
    /\ pc = "failed"
    /\ Len(calls) = 1
    /\ Len(prev.calls) = 1
    /\ cluster.changes = <<>>

returned_always ==
    {"nfs_default_settings", "email_settings", "ntp_servers",
     "cluster_identity", "cluster_owner"}

C21_AsClaimed ==
    pc = "exited" => returned_always \subseteq DOMAIN Report

(***************************************************************************)
(* C22.  No retries: within one invocation every handler is called at most *)
(* once and each remote operation of a handler is issued at most once; a   *)
(* remote operation that raised is the last one issued, the invocation has *)
(* ended there and its failure is the only output.                         *)
(***************************************************************************)
TimesIssued(op) == Cardinality({i \in DOMAIN calls : calls[i].op = op})

C22_NoRetries ==
    /\ \A i, j \in DOMAIN invoked : invoked[i] = invoked[j] => i = j
    /\ \A c \in Elements(invoked) :
           \A op \in operations_of(c) : TimesIssued(op) <= 1
    /\ \A i \in DOMAIN calls :
           calls[i].op \in cluster.failing =>
               /\ i = Len(calls)
               /\ pc = "failed"
               /\ Len(outputs) = 1
               /\ outputs[1].call = "fail_json"

C22_Witness ==
    /\ pc = "failed"
    /\ invoked = <<"access_zones", "users">>
    /\ Len(calls) = 2
    /\ calls[2].op = "list_auth_users"
    /\ cluster.failing = {"list_auth_users"}

(***************************************************************************)
(* C23.  Every invocation terminates: remote calls returning or raising,   *)
(* the invocation eventually has exited with the Report emitted or failed  *)
(* with an error emitted.  It passes through validation, dispatch and      *)
(* aggregation in that order: no step leads back to an earlier stage, the  *)
(* position in the chain of tests never decreases, the Report is emitted   *)
(* only by the step that follows the last test, and an ended invocation    *)
(* takes no further step.                                                  *)
(***************************************************************************)
Ended == pc \in {"exited", "failed"}

StageRank(stage) ==
    CASE stage = "main" -> 0
      [] stage = "constructed" -> 1
      [] stage = "dispatching" -> 2
      [] stage \in {"exited", "failed"} -> 3

Emitted ==
    /\ Len(outputs) = 1
    /\ outputs[1].call = IF pc = "exited" THEN "exit_json" ELSE "fail_json"

StagesInOrder ==
    /\ StageRank(pc') >= StageRank(pc)
    /\ pos' >= pos
    /\ ~Ended
    /\ pc' = "exited" => pc = "dispatching" /\ next_if(pos) = 0
    /\ (pc = "main" /\ pc' # "failed") => pc' = "constructed"
    /\ (pc = "constructed" /\ pc' # "failed") => pc' = "dispatching"

C23_Terminates ==
    /\ <>Ended
    /\ [](Ended => Emitted)
    /\ [](~Ended => outputs = <<>>)
    /\ [][StagesInOrder]_vars

C23_Witness ==
    /\ pc = "exited"
    /\ invoked = <<"attributes", "nodes">>
    /\ pos = Len(if_chain)
    /\ Len(outputs) = 1

(***************************************************************************)
(* C24.  The nfs_zone_settings handler returns the 'settings' object of    *)
(* the remote answer with the field 'zone' set to the access_zone the call *)
(* was made with; it has the fields of the settings object and 'zone', and *)
(* every field other than 'zone' has the value it came with.               *)
(***************************************************************************)
C24_ZoneSettings ==
    "nfs_zone_settings" \in DOMAIN returned =>
        \E i \in DOMAIN calls :
            /\ calls[i].op = "get_nfs_settings_zone"
            /\ kwarg(calls[i], "zone") = params.access_zone
            /\ LET settings == response(calls[i]).settings.v
                   out == returned["nfs_zone_settings"]
               IN  /\ out.py = "dict"
                   /\ DOMAIN out.v = DOMAIN settings \cup {"zone"}
                   /\ out.v.zone = kwarg(calls[i], "zone")
                   /\ \A f \in DOMAIN settings \ {"zone"} :
                          out.v[f] = settings[f]

C24_Witness ==
    /\ pc = "exited"
    /\ Requested = {"nfs_zone_settings"}
    /\ params.access_zone = "zone1"
    /\ Report.NfsZoneSettings.v.zone = "zone1"
    /\ Report.NfsZoneSettings.v.nfsv4_domain = "dom.zone1"

(***************************************************************************)
(* C25.  Over the 39 identifiers of the enumeration the textual test of    *)
(* the dispatch, '<id>' in str(gather_subset), is the same as membership   *)
(* in the list: for every list of identifiers that passed validation and   *)
(* every identifier X of the chain, the test is true exactly when X is an  *)
(* element of the list.                                                    *)
(***************************************************************************)
Validated ==
    /\ pc # "main"
    /\ \A i \in DOMAIN params.gather_subset :
           params.gather_subset[i] \in Categories

C25_ExactMembership ==
    Validated =>
        \A i \in DOMAIN if_chain :
            if_test(i, str_of_list(params.gather_subset))
                <=> if_chain[i] \in Elements(params.gather_subset)

C25_Witness ==
    /\ pc = "exited"
    /\ params.gather_subset = <<"user_mapping_rules", "node_pools">>
    /\ invoked = <<"node_pools", "user_mapping_rules">>
    /\ ~if_test(IndexIn(if_chain, "nodes"),
                str_of_list(params.gather_subset))

(***************************************************************************)
(* C26.  The outcome depends only on the set of the requested categories:  *)
(* when the module is run again with the same categories listed in another *)
(* order or with repeats, the same handlers are called in the same order,  *)
(* each requested handler once, the same remote calls are issued and the   *)
(* same output (Report or error) is emitted.                               *)
(***************************************************************************)
SameSetOtherList ==
    /\ run = 2
    /\ prev.args.gather_subset # args.gather_subset
    /\ Elements(prev.args.gather_subset) = Elements(args.gather_subset)
    /\ prev.args = [args EXCEPT !.gather_subset = prev.args.gather_subset]

C26_SetOnly ==
    (SameSetOtherList /\ pc \in {"exited", "failed"}) =>
        /\ invoked = prev.invoked
        /\ calls = prev.calls
        /\ outputs = prev.outputs
        /\ \A i, j \in DOMAIN invoked : invoked[i] = invoked[j] => i = j
        /\ pc = "exited" => Elements(invoked) = Requested

C26_Witness ==
    /\ SameSetOtherList
    /\ pc = "exited"
    /\ prev.args.gather_subset = <<"nfs_exports", "clients">>
    /\ args.gather_subset = <<"clients", "nfs_exports">>
    /\ invoked = <<"clients", "nfs_exports">>
    /\ prev.invoked = invoked
    /\ Report = prev.outputs[1].result

(***************************************************************************)
(* C27.  Categories write disjoint output keys: no two categories have the *)
(* same key in the Report, and when the module is run again with one       *)
(* category added to gather_subset, both runs succeeding, the Report of    *)
(* the second run differs from that of the first in the key of the added   *)
(* category at most: every other key has the value it had.                 *)
(***************************************************************************)
AddedCategories == Elements(args.gather_subset)
                       \ Elements(prev.args.gather_subset)

OneMoreListed ==
    /\ run = 2
    /\ Len(args.gather_subset) = Len(prev.args.gather_subset) + 1
    /\ prev.args = [args EXCEPT !.gather_subset = prev.args.gather_subset]
    /\ SubSeq(args.gather_subset, 1, Len(prev.args.gather_subset))
           = prev.args.gather_subset
    /\ Cardinality(AddedCategories) = 1

C27_DisjointKeys ==
    /\ \A c, d \in Categories : KeyOf[c] = KeyOf[d] => c = d
    /\ (OneMoreListed /\ pc = "exited" /\ ~prev.outputs[1].failed) =>
           /\ DOMAIN Report = DOMAIN FormerReport
           /\ \A c \in Categories \ AddedCategories :
                  Report[KeyOf[c]] = FormerReport[KeyOf[c]]
           /\ \A c \in AddedCategories : Report[KeyOf[c]] = returned[c]

C27_Witness ==
    /\ OneMoreListed
    /\ pc = "exited"
    /\ prev.args.gather_subset = <<"nodes">>
    /\ args.gather_subset = <<"nodes", "cluster_owner">>
    /\ Report.ClusterOwner # FormerReport.ClusterOwner
    /\ Report.Nodes = FormerReport.Nodes

(***************************************************************************)
(* C28.  include_all_access_zones affects only network_pools: when it is   *)
(* supplied as true, and access_zone is therefore not supplied, the        *)
(* network_pools handler names no zone in its call, and every other        *)
(* handler that consumes the zone (providers, users, groups, smb_shares,   *)
(* nfs_exports, nfs_aliases, user_mapping_rules, nfs_zone_settings,        *)
(* nfs_default_settings, roles) issues its call for the one zone 'System'. *)
(***************************************************************************)
AllZonesAsked ==
    /\ "include_all_access_zones" \in args.supplied
    /\ args.include_all_access_zones = "True"
    /\ "access_zone" \notin args.supplied

UnknownTypeAt(i) == cluster.sync_rules.v[i].type \notin SyncRuleTypes

HasUnknownType ==
    /\ Requested = {"synciq_performance_rules"}
    /\ cluster.failing = {} /\ cluster.absent = {}
    /\ \E i \in DOMAIN cluster.sync_rules.v : UnknownTypeAt(i)

RulesFailure ==
    "Get SyncIQ performance rules list for PowerScale cluster: "

C29_UnknownTypeFails ==
    (HasUnknownType /\ pc \in {"exited", "failed"}) =>
        /\ \A i \in DOMAIN cluster.sync_rules.v :
               UnknownTypeAt(i) =>
                   LET rule == cluster.sync_rules.v[i]
                   IN  get_sync_rule_limit_unit(rule.limit, rule.type).raised
        /\ pc = "failed"
        /\ Len(calls) = 1
        /\ "synciq_performance_rules" \notin DOMAIN returned
        /\ locals.synciq_performance_rules = EmptyList
        /\ Len(outputs) = 1
        /\ outputs[1].call = "fail_json"
        /\ SubSeq(outputs[1].msg, 1, Len(RulesFailure)) = RulesFailure

C29_Witness ==
    /\ pc = "failed"
    /\ Requested = {"synciq_performance_rules"}
    /\ cluster.sync_rules.v = <<sync_rule("cpu", 5), sync_rule("quota", 5)>>
    /\ calls = <<Call("list_sync_rules", <<>>)>>
    /\ outputs[1].call = "fail_json"

(***************************************************************************)
(* C30.  The attributes handler issues its five remote calls in the fixed  *)
(* order cluster config, external IPs, cluster identity, cluster owner,    *)
(* cluster version.  When the k-th call raises, the calls up to the k-th   *)
(* are the only ones issued and the handler fails; the Attributes value is *)
(* returned only when all five calls were issued and succeeded, and then   *)
(* it has all five of its parts.                                           *)
(***************************************************************************)
AttributesCalls ==
    << "get_cluster_config", "get_cluster_external_ips",
       "get_cluster_identity", "get_cluster_owner", "get_cluster_version" >>

\* The operations of the calls logged while the attributes handler ran.
AttributesIssued ==
    LET log == SelectSeq(calls, LAMBDA call :
                                    call.op \in operations_of("attributes"))
    IN  [i \in DOMAIN log |-> log[i].op]

C30_AttributesInOrder ==
    "attributes" \in Elements(invoked) =>
        /\ \E k \in 1..5 : AttributesIssued = SubSeq(AttributesCalls, 1, k)
        /\ \A k \in 1..5 :
               AttributesCalls[k] \in cluster.failing =>
                   /\ AttributesIssued = SubSeq(AttributesCalls, 1, k)
                   /\ pc = "failed"
                   /\ "attributes" \notin DOMAIN returned
                   /\ locals.attributes = EmptyList
        /\ "attributes" \in DOMAIN returned =>
               /\ AttributesIssued = AttributesCalls
               /\ operations_of("attributes") \cap cluster.failing = {}
               /\ DOMAIN returned.attributes.v =
                      {"Config", "Contact_Info", "External_IP", "Logon_msg",
                       "Cluster_Version"}
        /\ "attributes" \notin DOMAIN returned =>
               locals.attributes = EmptyList

C30_Witness ==
    /\ pc = "failed"
    /\ invoked = <<"attributes">>
    /\ cluster.failing = {"get_cluster_identity"}
    /\ Len(calls) = 3
    /\ calls[3].op = "get_cluster_identity"
    /\ "attributes" \notin DOMAIN returned

====
